---- MODULE Spec2Model ----
(***************************************************************************)
(* Model of the open-hydro-o3 decision core and its actuator controller:   *)
(* app/actuators.py (ActuatorController), app/rules.py (RulesEngine),      *)
(* app/memory/kpis.py (KPICalculator), app/llm_agent.py (LLMAgent) and     *)
(* scripts/control_loop.py (ControlLoop, main).                            *)
(*                                                                         *)
(* Volumes are integers in tenths of a millilitre (the program rounds     *)
(* every dose to one decimal), health scores in thousandths (the KPI code *)
(* rounds to three decimals), pH and EC in hundredths, in-spec            *)
(* percentages in tenths of a percent.                                     *)
(***************************************************************************)
EXTENDS Integers, Sequences, FiniteSets, TLC

\* ------------------------------------------------------------------ units
\* one millilitre, in the model's unit (tenths of a millilitre)
MlScale == 10

\* ----------------------------------------------------------------- bounds
\* local dates are 0..MaxDay
MaxDay == 1
\* a ledger entry is kept at or above MaxNegative negative doses below zero
MaxNegative == 1
\* at most this many refills are recorded in one ledger
MaxRefills == 1
\* at most this many control cycles are started
MaxCycles == 2
\* the clock of the event loop runs over 0..MaxClock minutes
MaxClock == 3
\* at most this many _auto_fan_shutoff tasks are pending at a time
MaxTimers == 2

VARIABLES
  today,            \* datetime.now().date(), as a day number
  daily_doses,      \* ActuatorController.daily_doses, per controller
  last_dose_reset,  \* ActuatorController.last_dose_reset, per controller
  states,           \* ActuatorController.states, per controller
  call,             \* the frame of a dose_nutrients call, per task
  pc,               \* where each control_loop.py process stands in main()
  cyc,              \* the locals of run_control_cycle, per process
  fan_task,         \* a pending _auto_fan_shutoff task, per process
  ncycles,          \* control cycles started so far
  dosed_today,      \* history: ml the control cycles dosed per pump since midnight
  reservoir_volume_l, \* config["reservoir_volume_l"] of the RulesEngine in use
  engine_call,      \* the last direct call of a RulesEngine method, with its result
  db,               \* the database: the actuator_actions rows and the system_events count
  timeline          \* the event loop of a controller used by several callers: its
                    \* clock (minutes), the wake-up times of the pending
                    \* _auto_fan_shutoff tasks, the speed and the end of the latest
                    \* fan command, and whether emergency_stop was the last command

actVars == <<daily_doses, last_dose_reset, states>>
cycVars == <<pc, cyc, fan_task, ncycles>>
ruleVars == <<reservoir_volume_l, engine_call>>
auxVars == <<db, timeline>>
vars == <<today, daily_doses, last_dose_reset, states, call,
          pc, cyc, fan_task, ncycles, dosed_today, reservoir_volume_l, engine_call,
          db, timeline>>

\* processes / asyncio tasks, each with the controller object it built
Tasks == {1, 2}

\* ------------------------------------------------------- ActuatorController
SAFETY_LIMITS ==
  [ pump_a_max_ml    |-> 50 * MlScale,
    pump_b_max_ml    |-> 50 * MlScale,
    ph_pump_max_ml   |-> 20 * MlScale,
    refill_max_ml    |-> 1000 * MlScale,
    daily_dose_limit |-> 200 * MlScale,
    fan_max_speed    |-> 100,
    led_max_power    |-> 100 ]

\* the pump names dose_nutrients accepts
DosePumps == {"pump_a", "pump_b", "ph_pump", "refill"}

\* self.daily_doses = {}
EmptyLedger == [p \in {} |-> 0]

\* self.daily_doses.get(pump_name, 0)
LedgerGet(ledger, pump_name) ==
  IF pump_name \in DOMAIN ledger THEN ledger[pump_name] ELSE 0

\* self.SAFETY_LIMITS.get(max_ml_key, 50)
MaxSingleDose(pump_name) ==
  CASE pump_name = "refill"  -> SAFETY_LIMITS.refill_max_ml
    [] pump_name = "pump_a"  -> SAFETY_LIMITS.pump_a_max_ml
    [] pump_name = "pump_b"  -> SAFETY_LIMITS.pump_b_max_ml
    [] pump_name = "ph_pump" -> SAFETY_LIMITS.ph_pump_max_ml
    [] OTHER                 -> 50 * MlScale

\* mutant: the daily limit is not checked
CheckDosingSafety_NoDaily(ledger, pump_name, ml_amount) ==
  IF ml_amount > MaxSingleDose(pump_name)
    THEN [safe |-> FALSE, reason |-> "single_dose_limit"]
    ELSE [safe |-> TRUE, reason |-> "within_limits"]

\* mutant: the daily limit is compared with >= instead of >
CheckDosingSafety_Ge(ledger, pump_name, ml_amount) ==
  IF ml_amount > MaxSingleDose(pump_name)
    THEN [safe |-> FALSE, reason |-> "single_dose_limit"]
  ELSE IF /\ pump_name # "refill"
          /\ LedgerGet(ledger, pump_name) + ml_amount >= SAFETY_LIMITS.daily_dose_limit
    THEN [safe |-> FALSE, reason |-> "daily_dose_limit"]
  ELSE [safe |-> TRUE, reason |-> "within_limits"]

\* _check_dosing_safety: single-dose limit first, then the daily limit
CheckDosingSafety(ledger, pump_name, ml_amount) ==
  IF ml_amount > MaxSingleDose(pump_name)
    THEN [safe |-> FALSE, reason |-> "single_dose_limit"]
  ELSE IF /\ pump_name # "refill"
          /\ LedgerGet(ledger, pump_name) + ml_amount > SAFETY_LIMITS.daily_dose_limit
    THEN [safe |-> FALSE, reason |-> "daily_dose_limit"]
  ELSE [safe |-> TRUE, reason |-> "within_limits"]

\* mutant: the ledger is cleared on every call, the same date included
ResetNeeded_Ge(day, last_reset) == day >= last_reset

\* _reset_daily_doses_if_needed: the condition of the reset
ResetNeeded(day, last_reset) == day > last_reset

\* self.daily_doses[pump_name] += ml_amount (entry created at 0 when absent)
LedgerAdd(ledger, pump_name, ml_amount) ==
  [q \in (DOMAIN ledger) \cup {pump_name} |->
     IF q = pump_name THEN LedgerGet(ledger, pump_name) + ml_amount ELSE ledger[q]]

\* mutant: a failed dose is added to the ledger too
LedgerAfterDose_Always(ledger, pump_name, ml_amount, success) ==
  LedgerAdd(ledger, pump_name, ml_amount)

\* dose_nutrients, "Track daily totals": only a successful dose is added
LedgerAfterDose(ledger, pump_name, ml_amount, success) ==
  IF success THEN LedgerAdd(ledger, pump_name, ml_amount) ELSE ledger

\* self.states["pumps"][pump_name] = on
SetPump(st, pump_name, on) ==
  [st EXCEPT !.pumps =
     [q \in (DOMAIN st.pumps) \cup {pump_name} |->
        IF q = pump_name THEN on ELSE st.pumps[q]]]

\* ActuatorController.__init__
InitStates ==
  [ pumps |-> [q \in {"pump_a", "pump_b", "ph_pump", "refill_pump"} |-> FALSE],
    fan_speed |-> 0,
    led_power |-> 0 ]

IdleCall ==
  [ st |-> "idle", ctl |-> 1, cmds |-> <<>>, i |-> 1,
    executed |-> {}, skipped |-> {}, errors |-> {} ]

\* the dosing command being handled by task t
CurCmd(t) == call[t].cmds[call[t].i]

\* dose_nutrients, entry: the daily reset and the empty results
DoseNutrientsCall(t, k, cmds) ==
  /\ call[t].st = "idle"
  /\ LET reset == ResetNeeded(today, last_dose_reset[k]) IN
       /\ daily_doses' = [daily_doses EXCEPT ![k] = IF reset THEN EmptyLedger ELSE @]
       /\ last_dose_reset' = [last_dose_reset EXCEPT ![k] = IF reset THEN today ELSE @]
  /\ call' = [call EXCEPT ![t] =
       [ st |-> "loop", ctl |-> k, cmds |-> cmds, i |-> 1,
         executed |-> {}, skipped |-> {}, errors |-> {} ]]
  /\ UNCHANGED <<today, states>>

\* dose_nutrients, one iteration of the loop up to the await of the pump run
DoseLoopStep(t) ==
  /\ call[t].st = "loop"
  /\ call[t].i <= Len(call[t].cmds)
  /\ LET k == call[t].ctl
         name == CurCmd(t).name
         ml == CurCmd(t).ml
         check == CheckDosingSafety(daily_doses[k], name, ml)
     IN
       IF name \notin DosePumps THEN
         /\ call' = [call EXCEPT ![t].i = @ + 1]
         /\ UNCHANGED <<daily_doses, states>>
       ELSE IF ~check.safe THEN
         /\ call' = [call EXCEPT ![t].i = @ + 1,
                                 ![t].skipped = @ \cup {[pump |-> name, reason |-> check.reason]}]
         /\ UNCHANGED <<daily_doses, states>>
       ELSE IF ml <= 0 THEN
         \* _execute_pump_dose returns True at once: nothing is awaited
         /\ call' = [call EXCEPT ![t].i = @ + 1, ![t].executed = @ \cup {name}]
         /\ daily_doses' = [daily_doses EXCEPT ![k] = LedgerAfterDose(@, name, ml, TRUE)]
         /\ UNCHANGED states
       ELSE
         /\ states' = [states EXCEPT ![k] = SetPump(@, name, TRUE)]
         /\ call' = [call EXCEPT ![t].st = "pumping"]
         /\ UNCHANGED daily_doses
  /\ UNCHANGED <<today, last_dose_reset>>

\* _execute_pump_dose after asyncio.sleep, and the bookkeeping of dose_nutrients
DosePumpDone(t, success) ==
  /\ call[t].st = "pumping"
  /\ LET k == call[t].ctl
         name == CurCmd(t).name
         ml == CurCmd(t).ml
     IN
       /\ states' = [states EXCEPT ![k] = SetPump(@, name, FALSE)]
       /\ daily_doses' = [daily_doses EXCEPT ![k] = LedgerAfterDose(@, name, ml, success)]
       /\ IF success
            THEN call' = [call EXCEPT ![t].st = "loop", ![t].i = @ + 1,
                                      ![t].executed = @ \cup {name}]
            ELSE call' = [call EXCEPT ![t].st = "loop", ![t].i = @ + 1,
                                      ![t].errors = @ \cup {name}]
  /\ UNCHANGED <<today, last_dose_reset>>

\* dose_nutrients returns its results
DoseNutrientsReturn(t) ==
  /\ call[t].st = "loop"
  /\ call[t].i > Len(call[t].cmds)
  /\ call' = [call EXCEPT ![t] = IdleCall]
  /\ UNCHANGED <<today, daily_doses, last_dose_reset, states>>

\* run_control_cycle has not started
NoCycle == [success |-> "none"]

\* no method of the rule engine has been called directly
NoCall == [op |-> "none"]

\* the local date advances
Tick ==
  /\ today < MaxDay
  /\ today' = today + 1
  /\ UNCHANGED <<daily_doses, last_dose_reset, states, call>>

Init ==
  /\ today = 0
  /\ daily_doses = [k \in Tasks |-> EmptyLedger]
  /\ last_dose_reset = [k \in Tasks |-> 0]
  /\ states = [k \in Tasks |-> InitStates]
  /\ call = [t \in Tasks |-> IdleCall]
  /\ pc = [t \in Tasks |-> "idle"]
  /\ cyc = [t \in Tasks |-> NoCycle]
  /\ fan_task = [t \in Tasks |-> FALSE]
  /\ ncycles = 0
  /\ dosed_today = EmptyLedger
  /\ reservoir_volume_l = 20
  /\ engine_call = NoCall
  /\ db = [actuator_actions |-> <<>>, system_events |-> 0]
  /\ timeline = [now |-> 0, shutoffs |-> <<>>, fan_speed |-> 0, fan_until |-> 0,
                 stopped |-> FALSE]

\* ------------------------------------------------------------ dict values
\* an optional value: <<>> is None, <<v>> is the value v
None == <<>>
Some(v) == <<v>>
IsNone(x) == x = <<>>
Val(x) == x[1]

\* d.get(key): None when the key is absent
Get(d, key) == IF key \in DOMAIN d THEN d[key] ELSE None

\* d.get(key, default)
GetOr(d, key, default) == IF key \in DOMAIN d THEN d[key] ELSE Some(default)

\* one entry of a dose dict: pump name -> {"ml": ml, ...}
Cmd(n, m) == [name |-> n, ml |-> m]

\* round-half-even of n/d for d > 0: round(x, 1) on a volume in tenths.
\* (Python rounds the binary value; the inputs of the model never hit an exact
\* half that a float would represent from below.)
RoundDiv(n, d) ==
  LET q == n \div d
      r == n % d
  IN IF 2 * r < d THEN q
     ELSE IF 2 * r > d THEN q + 1
     ELSE IF q % 2 = 0 THEN q ELSE q + 1

Min(a, b) == IF a <= b THEN a ELSE b
Max(a, b) == IF a >= b THEN a ELSE b
Abs(a) == IF a >= 0 THEN a ELSE -a

\* ------------------------------------------------------------- KPICalculator
\* compliance scores are kept in millionths
One == 1000000

\* load_config()["targets"], in the units of the readings
targets ==
  [ ph_min |-> 550, ph_max |-> 650, ec_min |-> 120, ec_max |-> 200,
    temp_min |-> 180, temp_max |-> 260, humidity_min |-> 50, humidity_max |-> 70,
    co2_min |-> 400, co2_max |-> 1200 ]

\* _is_in_range: 1.0 inside, 0.0 for None, else max(0, 1 - 2 * deviation)
IsInRange(value, min_val, max_val) ==
  IF IsNone(value) THEN 0
  ELSE IF min_val <= Val(value) /\ Val(value) <= max_val THEN One
  ELSE IF Val(value) < min_val
    THEN Max(0, One - (2 * One * (min_val - Val(value))) \div min_val)
    ELSE Max(0, One - (2 * One * (Val(value) - max_val)) \div max_val)

\* calculate_current_kpis: the weighted health score rounded to three decimals,
\* and the placeholder of _get_days_since_reservoir_change
CalculateCurrentKpis(sensor_data) ==
  LET water == sensor_data.water
      air == sensor_data.air
      ph_in_spec == IsInRange(Get(water, "ph"), targets.ph_min, targets.ph_max)
      ec_in_spec == IsInRange(Get(water, "ec"), targets.ec_min, targets.ec_max)
      temp_in_spec == IsInRange(Get(air, "temperature"), targets.temp_min, targets.temp_max)
      humidity_in_spec == IsInRange(Get(air, "humidity"), targets.humidity_min, targets.humidity_max)
      co2_in_spec == IsInRange(Get(air, "co2"), targets.co2_min, targets.co2_max)
      health_score == ph_in_spec * 30 + ec_in_spec * 25 + temp_in_spec * 20
                      + humidity_in_spec * 15 + co2_in_spec * 10
  IN [ health_score |-> Some(RoundDiv(health_score, 100000)),
       days_since_reservoir_change |-> Some(5) ]

\* a KPI dict with the given health score
Kpis(health_score) ==
  [health_score |-> Some(health_score), days_since_reservoir_change |-> Some(5)]

\* --------------------------------------------------------------- RulesEngine
\* load_config(): the defaults the rule engine reads
config ==
  [ grow_phase |-> "vegetative",
    reservoir_volume_l |-> reservoir_volume_l,
    baseline_dosing_ml_per_week |-> 50 * MlScale,
    ph_target |-> 600,
    ec_target |-> 160,
    temp_target |-> 220 ]

\* RulesEngine.__init__: thresholds (percentages in tenths, pH/EC in hundredths)
thresholds ==
  [ ph_in_spec_threshold |-> 900,
    ec_in_spec_threshold |-> 900,
    health_score_threshold |-> 800,
    stability_threshold |-> 950,
    ph_adjustment_limit |-> 10,
    ec_adjustment_limit |-> 10,
    freeze_period_days |-> 14,
    rollback_check_hours |-> 48 ]

\* _load_safety_limits: the defaults
safety_limits == [max_daily_dose_ml |-> 200 * MlScale, max_single_dose_ml |-> 50 * MlScale]

\* an action dict of the rule engine, as one record shape; tag "None" is the
\* Python value None stored under a finding's "action" key, tag "none" the
\* string "none" of the freeze finding
Action(tag, dose, fan_speed, duration_minutes, led_power, ec_target) ==
  [ tag |-> tag, dose |-> dose, fan_speed |-> fan_speed,
    duration_minutes |-> duration_minutes, led_power |-> led_power,
    ec_target |-> ec_target ]

NoneAction == Action("None", <<>>, 0, 0, 0, 0)

\* the keys of an action dict
ActionKeys(a) ==
  CASE a.tag = "dose" -> {"type"} \cup {a.dose[j].name : j \in 1..Len(a.dose)}
    [] a.tag = "fan" -> {"fan_speed", "duration_minutes", "reason"}
    [] a.tag = "fan_minimal" -> {"fan_speed", "reason"}
    [] a.tag = "led" -> {"led_power", "reason"}
    [] a.tag = "config_change" -> {"type", "ec_target", "reason"}
    [] a.tag = "reservoir_change" -> {"type", "reason"}
    [] a.tag = "rollback" -> {"required", "reason", "rollback_to"}
    [] OTHER -> {}

\* a finding: has_action says whether the dict has an "action" key at all
Finding(rule, has_action, action, type) ==
  [rule |-> rule, has_action |-> has_action, action |-> action, type |-> type]

\* mutant: only a non-positive dosage is unsafe
IsDosageSafe_NoCeiling(pump_type, dosage_ml) == 0 < dosage_ml

\* _is_dosage_safe, on a dosage in thousandths of a ml
IsDosageSafe(pump_type, dosage_ml) ==
  LET max_single == IF pump_type = "ph_pump"
                      THEN Min(safety_limits.max_single_dose_ml, 20 * MlScale)
                      ELSE safety_limits.max_single_dose_ml
  IN 0 < dosage_ml /\ dosage_ml <= max_single * 100

\* _calculate_ph_down_dosage: (adjustment/0.1) * (reservoir/10); the adjustment
\* in thousandths of a pH unit, the result in thousandths of a ml
CalculatePhDownDosage(ph_adjustment) ==
  ph_adjustment * config.reservoir_volume_l

\* _calculate_ph_up_dosage: the same times 0.7
CalculatePhUpDosage(ph_adjustment) ==
  (ph_adjustment * config.reservoir_volume_l * 7) \div 10

\* _calculate_nutrient_dosage(increase=True): (adjustment/0.1)*5*(reservoir/10);
\* the adjustment in hundredths of an EC unit, the result in thousandths of a ml
CalculateNutrientDosage(ec_adjustment) ==
  ec_adjustment * 5 * config.reservoir_volume_l * 10

\* mutant: any health score at or below 0.6 requires the rollback
CheckRollbackRequired_Le(current_kpis) ==
  [required |-> Val(GetOr(current_kpis, "health_score", 1000)) <= 600]

\* _check_rollback_required
CheckRollbackRequired(current_kpis) ==
  [required |-> Val(GetOr(current_kpis, "health_score", 1000)) < 600]

\* mutant: the freeze needs the health average and one of the two in-spec rates
CheckFreezeStatus_Or(trends) ==
  LET should_freeze ==
        /\ Val(GetOr(trends, "health_7day_avg", 0)) >= 950
        /\ \/ Val(GetOr(trends, "ph_in_spec_7day", 0)) >= thresholds.stability_threshold
           \/ Val(GetOr(trends, "ec_in_spec_7day", 0)) >= thresholds.stability_threshold
  IN [ frozen |-> should_freeze,
       freeze_until |-> IF should_freeze THEN Some(thresholds.freeze_period_days) ELSE None ]

\* _check_freeze_status; freeze_until is kept as the number of days it lies
\* after utcnow()
CheckFreezeStatus(trends) ==
  LET health_7day == Val(GetOr(trends, "health_7day_avg", 0))
      ph_in_spec == Val(GetOr(trends, "ph_in_spec_7day", 0))
      ec_in_spec == Val(GetOr(trends, "ec_in_spec_7day", 0))
      freeze_threshold == thresholds.stability_threshold
      should_freeze ==
        /\ health_7day >= 950
        /\ ph_in_spec >= freeze_threshold
        /\ ec_in_spec >= freeze_threshold
  IN [ frozen |-> should_freeze,
       freeze_until |-> IF should_freeze THEN Some(thresholds.freeze_period_days) ELSE None ]

\* abs(ph_deviation) > 0.2 as the doubles decide it, for a reading of two
\* decimals: 6.2 - 6.0 and 6.0 - 5.8 are 0.20000000000000018, which exceeds
\* the double 0.2, so a deviation of exactly 0.2 counts as significant
DeviationSignificant(ph_deviation) == Abs(ph_deviation) >= 20

\* _evaluate_ph_rules: the finding, or <<>> when it returns None
EvaluatePhRules(sensor_data, trends) ==
  LET current_ph == Get(sensor_data.water, "ph")
      ph_in_spec_7day == Val(GetOr(trends, "ph_in_spec_7day", 1000))
      ph_deviation == Val(current_ph) - config.ph_target
      \* min(|deviation| * 0.5, limit), here in thousandths of a pH unit
      adjustment == Min(Abs(ph_deviation) * 5, thresholds.ph_adjustment_limit * 10)
      dosage_ml == IF ph_deviation > 0 THEN CalculatePhDownDosage(adjustment)
                                       ELSE CalculatePhUpDosage(adjustment)
      stable == Finding("ph_check", TRUE, NoneAction, "")
  IN IF IsNone(current_ph) THEN <<>>
     ELSE IF /\ ph_in_spec_7day < thresholds.ph_in_spec_threshold
             /\ DeviationSignificant(ph_deviation)
             /\ IsDosageSafe("ph_pump", dosage_ml)
       THEN <<Finding("ph_adjustment", TRUE,
                Action("dose", <<Cmd("type", 0), Cmd("ph_pump", RoundDiv(dosage_ml, 100))>>,
                       0, 0, 0, 0), "")>>
       ELSE <<stable>>

\* _evaluate_ec_rules: the finding, or <<>> when it returns None
EvaluateEcRules(sensor_data, trends, current_kpis) ==
  LET current_ec == Get(sensor_data.water, "ec")
      ec_in_spec_7day == Val(GetOr(trends, "ec_in_spec_7day", 1000))
      health_score == Val(GetOr(current_kpis, "health_score", 1000))
      ml_total_7day == Val(GetOr(trends, "ml_total_7day", 0))
      up == Min(config.ec_target - Val(current_ec), thresholds.ec_adjustment_limit)
      dosage_ml == CalculateNutrientDosage(up)
      down == Min(Val(current_ec) - config.ec_target, thresholds.ec_adjustment_limit)
  IN IF IsNone(current_ec) THEN <<>>
     ELSE IF /\ ec_in_spec_7day < thresholds.ec_in_spec_threshold
             /\ health_score < thresholds.health_score_threshold
             /\ Val(current_ec) < config.ec_target
             /\ IsDosageSafe("pump_a", dosage_ml)
       THEN <<Finding("ec_increase", TRUE,
                Action("dose", <<Cmd("type", 0),
                                 Cmd("pump_a", RoundDiv(dosage_ml * 6, 1000)),
                                 Cmd("pump_b", RoundDiv(dosage_ml * 4, 1000))>>,
                       0, 0, 0, 0), "")>>
     ELSE IF /\ ml_total_7day * 10 > config.baseline_dosing_ml_per_week * 12
             /\ Val(current_ec) > config.ec_target
             /\ ec_in_spec_7day > 950
       THEN <<Finding("ec_decrease", TRUE,
                Action("config_change", <<>>, 0, 0, 0, config.ec_target - down), "")>>
       ELSE <<Finding("ec_check", FALSE, NoneAction, "")>>

\* _evaluate_environmental_rules: the findings in order; [] when a comparison
\* with None raises inside its try block.  The cooling fan speed is
\* int((t - temp_target) * 20) on doubles, which is one below the exact value
\* at 24.2, 24.4, 24.7, 24.9, 25.2, 25.4, 25.7 and 25.9 C; the temperatures
\* used here (RuleAirCases, the cycle's readings) are not among them.
EvaluateEnvironmentalRules(sensor_data, current_kpis) ==
  LET current_temp == Get(sensor_data.air, "temperature")
      current_humidity == Get(sensor_data.air, "humidity")
      current_lux == GetOr(sensor_data.light, "lux", 0)
      current_ec == GetOr(sensor_data.water, "ec", 0)
      temp_range == 20
      t == Val(current_temp)
      temp ==
        IF IsNone(current_temp) THEN <<>>
        ELSE IF t > config.temp_target + temp_range
          THEN <<Finding("temperature_cooling", TRUE,
                   Action("fan", <<>>, Min(80, ((t - config.temp_target) * 20) \div 10), 30, 0, 0),
                   "fan")>>
        ELSE IF t < config.temp_target - temp_range
          THEN <<Finding("temperature_heating", TRUE,
                   Action("fan_minimal", <<>>, 10, 0, 0, 0), "environmental")>>
        ELSE <<>>
      humidity ==
        IF ~IsNone(current_humidity) /\ Val(current_humidity) > 80
          THEN <<Finding("humidity_control", TRUE, Action("fan", <<>>, 60, 20, 0, 0), "fan")>>
          ELSE <<>>
      raises ==
        \/ IsNone(current_lux)
        \/ Val(current_lux) > 30000 /\ IsNone(current_ec)
      light ==
        IF ~raises /\ Val(current_lux) > 30000 /\ Val(current_ec) > 200
          THEN <<Finding("light_stress_prevention", TRUE, Action("led", <<>>, 0, 0, 70, 0), "led")>>
          ELSE <<>>
  IN IF raises THEN <<>> ELSE temp \o humidity \o light

\* RulesEngine.__init__: reservoir_change_days.get(grow_phase, 14)
ReservoirChangeDays(grow_phase) ==
  CASE grow_phase = "GREENS" -> 14
    [] grow_phase = "FRUITS" -> 7
    [] OTHER -> 14

\* _evaluate_reservoir_rules
EvaluateReservoirRules(current_kpis) ==
  LET days_since_change == Val(GetOr(current_kpis, "days_since_reservoir_change", 0))
  IN IF days_since_change >= ReservoirChangeDays(config.grow_phase)
       THEN <<Finding("reservoir_change_cadence", TRUE,
                Action("reservoir_change", <<>>, 0, 0, 0, 0), "")>>
       ELSE <<Finding("reservoir_check", FALSE, NoneAction, "")>>

\* recommendations["actions"][key] = value, on a dict kept as a function
Put(d, key, value) ==
  [q \in (DOMAIN d) \cup {key} |-> IF q = key THEN value ELSE d[q]]

EmptyDict == [q \in {} |-> NoneAction]

\* evaluate_rules: the actions a sequence of findings leaves in the dict, under
\* fixed_key, or under each finding's "type" ("environmental" without one)
\* when fixed_key is ""
RECURSIVE PutFindings(_, _, _)
PutFindings(d, findings, fixed_key) ==
  IF findings = <<>> THEN d
  ELSE LET f == Head(findings)
           key == IF fixed_key # "" THEN fixed_key
                  ELSE IF f.type # "" THEN f.type ELSE "environmental"
       IN PutFindings(IF f.has_action THEN Put(d, key, f.action) ELSE d,
                      Tail(findings), fixed_key)

\* mutant: the freeze gate adds its finding and the rules are evaluated all the same
EvaluateRules_NoFreezeReturn(sensor_data, current_kpis, trends) ==
  LET freeze_status == CheckFreezeStatus(trends)
      rollback_required == CheckRollbackRequired(current_kpis)
      findings == EvaluatePhRules(sensor_data, trends)
                  \o EvaluateEcRules(sensor_data, trends, current_kpis)
                  \o EvaluateEnvironmentalRules(sensor_data, current_kpis)
                  \o EvaluateReservoirRules(current_kpis)
      a1 == PutFindings(EmptyDict, EvaluatePhRules(sensor_data, trends), "ph_adjustment")
      a2 == PutFindings(a1, EvaluateEcRules(sensor_data, trends, current_kpis), "ec_adjustment")
      a3 == PutFindings(a2, EvaluateEnvironmentalRules(sensor_data, current_kpis), "")
      a4 == PutFindings(a3, EvaluateReservoirRules(current_kpis), "reservoir")
      base == [freeze_status |-> freeze_status, rollback_required |-> rollback_required]
  IN IF rollback_required.required /\ ~freeze_status.frozen
       THEN base @@ [rule_evaluations |-> <<>>,
                     actions |-> Put(EmptyDict, "rollback",
                                     Action("rollback", <<>>, 0, 0, 0, 0))]
     ELSE IF freeze_status.frozen
       THEN base @@ [rule_evaluations |->
                       <<Finding("freeze_check", TRUE, Action("none", <<>>, 0, 0, 0, 0), "")>>
                       \o findings,
                     actions |-> a4]
       ELSE base @@ [rule_evaluations |-> findings, actions |-> a4]

\* evaluate_rules: the freeze gate returns first, then the rollback gate, then
\* the rules in the order pH, EC, environment, reservoir
EvaluateRules(sensor_data, current_kpis, trends) ==
  LET freeze_status == CheckFreezeStatus(trends)
      rollback_required == CheckRollbackRequired(current_kpis)
      ph_action == EvaluatePhRules(sensor_data, trends)
      ec_action == EvaluateEcRules(sensor_data, trends, current_kpis)
      env_actions == EvaluateEnvironmentalRules(sensor_data, current_kpis)
      reservoir_action == EvaluateReservoirRules(current_kpis)
      findings == ph_action \o ec_action \o env_actions \o reservoir_action
      a1 == PutFindings(EmptyDict, ph_action, "ph_adjustment")
      a2 == PutFindings(a1, ec_action, "ec_adjustment")
      a3 == PutFindings(a2, env_actions, "")
      a4 == PutFindings(a3, reservoir_action, "reservoir")
      base == [freeze_status |-> freeze_status, rollback_required |-> rollback_required]
  IN IF freeze_status.frozen
       THEN base @@ [rule_evaluations |->
                       <<Finding("freeze_check", TRUE, Action("none", <<>>, 0, 0, 0, 0), "")>>,
                     actions |-> EmptyDict]
     ELSE IF rollback_required.required
       THEN base @@ [rule_evaluations |-> <<>>,
                     actions |-> Put(EmptyDict, "rollback",
                                     Action("rollback", <<>>, 0, 0, 0, 0))]
       ELSE base @@ [rule_evaluations |-> findings, actions |-> a4]

\* apply_stable_unless_better_logic on a dose dict: non-dict entries are dropped
\* and every ml is scaled by factor/10 and rounded to one decimal
ScaleDose(dose, factor) ==
  LET kept == SelectSeq(dose, LAMBDA c : c.name # "type")
  IN [j \in 1..Len(kept) |-> Cmd(kept[j].name, RoundDiv(kept[j].ml * factor, 10))]

\* mutant: a health score of exactly 0.9 already halves the doses
ApplyStableUnlessBetterLogic_Ge(proposed_actions, current_performance) ==
  LET health_score == Val(GetOr(current_performance, "health_score", 800))
      factor == IF health_score >= 900 THEN 5 ELSE IF health_score > 800 THEN 8 ELSE 10
  IN [ filtered_actions |->
         IF factor < 10 /\ "dose" \in proposed_actions.keys
           THEN [proposed_actions EXCEPT !.dose = ScaleDose(@, factor)]
           ELSE proposed_actions,
       stability_factor |-> factor ]

\* apply_stable_unless_better_logic
ApplyStableUnlessBetterLogic(proposed_actions, current_performance) ==
  LET health_score == Val(GetOr(current_performance, "health_score", 800))
      factor == IF health_score > 900 THEN 5 ELSE IF health_score > 800 THEN 8 ELSE 10
  IN [ filtered_actions |->
         IF factor < 10 /\ "dose" \in proposed_actions.keys
           THEN [proposed_actions EXCEPT !.dose = ScaleDose(@, factor)]
           ELSE proposed_actions,
       stability_factor |-> factor ]

\* ---------------------------------------------------------------- ControlLoop
\* key.startswith(control_type), on the keys the rule engine uses
StartsWith(key, control_type) == key = control_type

\* combined['dose'][pump] = dose_data for every entry of the second dict
MergeDose(d1, d2) ==
  [j \in 1..Len(d1) |->
     IF \E b \in 1..Len(d2) : d2[b].name = d1[j].name
       THEN d2[CHOOSE b \in 1..Len(d2) : d2[b].name = d1[j].name]
       ELSE d1[j]]
  \o SelectSeq(d2, LAMBDA c : \A j \in 1..Len(d1) : d1[j].name # c.name)

NoFan == [fan_speed |-> 0, duration_minutes |-> 0]
NoLed == [led_power |-> 0]

\* llm_result as _combine_decisions reads it: None, a dict with "error", or a
\* dict whose "decisions" entry has the given keys among dose, fan, led, heater
Llm(tag, keys, dose, fan, led) ==
  [tag |-> tag, keys |-> keys, dose |-> dose, fan |-> fan, led |-> led]

\* LLMAgent._validate_response: a reply with an "error" key is returned as it
\* is; otherwise the result is {"decisions": validated, "reasoning", "confidence"}.
\* The value is the set of decision keys at the top level of what it returns.
ValidateResponse(response) ==
  IF response.has_error /\ response.level = "top" THEN response.keys ELSE {}

\* LLMAgent.make_decision: "decisions" is what _validate_response returned
MakeDecision(response) ==
  LET keys == ValidateResponse(response)
  IN Llm("ok", keys,
         IF "dose" \in keys THEN response.dose ELSE <<>>,
         IF "fan" \in keys THEN response.fan ELSE NoFan,
         IF "led" \in keys THEN response.led ELSE NoLed)

\* run_control_cycle, step 4
LlmStep(llm) ==
  CASE llm.mode = "off" -> Llm("none", {}, <<>>, NoFan, NoLed)
    [] llm.mode = "raises" -> Llm("error", {}, <<>>, NoFan, NoLed)
    [] OTHER -> MakeDecision(llm.response)

\* the combined dict; raised stands for the TypeError of "'action' in None"
Combined(raised, emergency_rollback, keys, dose, dose_reason, fan, led) ==
  [ raised |-> raised, emergency_rollback |-> emergency_rollback, keys |-> keys,
    dose |-> dose, dose_reason |-> dose_reason, fan |-> fan, led |-> led ]

\* mutant: the rollback does not replace the combined decisions
CombineDecisions_NoCollapse(rules_result, llm_result) ==
  LET usable == llm_result.tag = "ok"
      keys == IF usable THEN llm_result.keys ELSE {}
  IN Combined(FALSE, FALSE, keys, llm_result.dose, "llm", llm_result.fan, llm_result.led)

\* _combine_decisions
CombineDecisions(rules_result, llm_result) ==
  LET rules_actions == rules_result.actions
      usable == llm_result.tag = "ok"
      llm_dose ==
        /\ usable
        /\ "dose" \in llm_result.keys
        /\ ~\E key \in {"ph_adjustment", "ec_adjustment"} : key \in DOMAIN rules_actions
      llm_control(control_type) ==
        /\ usable
        /\ control_type \in llm_result.keys
        /\ ~\E key \in DOMAIN rules_actions : StartsWith(key, control_type)
      \* 'action' in action_data, for the keys the loop asks it of
      asked == (DOMAIN rules_actions) \cap {"ph_adjustment", "ec_adjustment", "fan", "led"}
      raises == \E key \in asked : rules_actions[key].tag = "None"
      has(key) == key \in asked /\ "action" \in ActionKeys(rules_actions[key])
      dose_ph == IF has("ph_adjustment") THEN rules_actions["ph_adjustment"].dose
                 ELSE IF llm_dose THEN llm_result.dose ELSE <<>>
      has_dose_ph == has("ph_adjustment") \/ llm_dose
      dose == IF has("ec_adjustment")
                THEN IF has_dose_ph THEN MergeDose(dose_ph, rules_actions["ec_adjustment"].dose)
                                    ELSE rules_actions["ec_adjustment"].dose
                ELSE dose_ph
      has_dose == has("ec_adjustment") \/ has_dose_ph
      has_fan == has("fan") \/ llm_control("fan")
      has_led == has("led") \/ llm_control("led")
      keys == (IF has_dose THEN {"dose"} ELSE {})
              \cup (IF has_fan THEN {"fan"} ELSE {})
              \cup (IF has_led THEN {"led"} ELSE {})
              \cup (IF llm_control("heater") THEN {"heater"} ELSE {})
  IN IF raises
       THEN Combined(TRUE, FALSE, {}, <<>>, "", NoFan, NoLed)
     ELSE IF rules_result.rollback_required.required
       THEN Combined(FALSE, TRUE, {}, <<>>, "", NoFan, NoLed)
       ELSE Combined(FALSE, FALSE, keys,
              IF has_dose THEN dose ELSE <<>>,
              IF has("ph_adjustment") \/ has("ec_adjustment") THEN "rules"
              ELSE IF llm_dose THEN "llm" ELSE "",
              IF has("fan")
                THEN [fan_speed |-> rules_actions["fan"].fan_speed,
                      duration_minutes |-> rules_actions["fan"].duration_minutes]
              ELSE IF llm_control("fan") THEN llm_result.fan ELSE NoFan,
              IF has("led") THEN [led_power |-> rules_actions["led"].led_power]
              ELSE IF llm_control("led") THEN llm_result.led ELSE NoLed)

\* emergency_stop: the four pins it names, the fan and the LEDs
EmergencyStop(st) ==
  [ pumps |-> [q \in (DOMAIN st.pumps) \cup {"pump_a", "pump_b", "ph_pump", "refill_pump"} |->
                 IF q \in {"pump_a", "pump_b", "ph_pump", "refill_pump"} THEN FALSE
                 ELSE st.pumps[q]],
    fan_speed |-> 0,
    led_power |-> 0 ]

\* control_fan: the speed is clamped to 0..100
ControlFan(st, speed_percent) ==
  [st EXCEPT !.fan_speed = Max(0, Min(100, speed_percent))]

\* control_led: the power is clamped to 0..100
ControlLed(st, power_percent) ==
  [st EXCEPT !.led_power = Max(0, Min(100, power_percent))]

\* the history of successful doses follows the step of task t
DosedAfter(t) ==
  dosed_today' =
    IF /\ call[t].st \in {"loop", "pumping"}
       /\ call[t].i <= Len(call[t].cmds)
       /\ CurCmd(t).name \in call'[t].executed \ call[t].executed
      THEN LedgerAdd(dosed_today, CurCmd(t).name, CurCmd(t).ml)
      ELSE dosed_today

\* midnight: the date advances and the history of the day starts again
Midnight ==
  /\ Tick
  /\ dosed_today' = EmptyLedger
  /\ UNCHANGED <<cycVars, ruleVars, auxVars>>

\* main(): a process starts; ControlLoop.initialize builds a new
\* ActuatorController, with an empty ledger dated today
Initialize(t) ==
  /\ pc[t] = "idle"
  /\ ncycles < MaxCycles
  /\ ncycles' = ncycles + 1
  /\ pc' = [pc EXCEPT ![t] = "ready"]
  /\ daily_doses' = [daily_doses EXCEPT ![t] = EmptyLedger]
  /\ last_dose_reset' = [last_dose_reset EXCEPT ![t] = today]
  /\ states' = [states EXCEPT ![t] = InitStates]
  /\ UNCHANGED <<today, call, cyc, fan_task, dosed_today, ruleVars, auxVars>>

NoDoseResult == [executed |-> {}, skipped |-> {}, errors |-> {}]

\* run_control_cycle, steps 1 to 6: read, KPIs, rules, LLM, combine, filter.
\* The TypeError of _combine_decisions is caught by the except clause, which
\* stores a system event and returns success False with the error message.
RunControlCycle(t, sensor_data, trends, llm) ==
  /\ pc[t] = "ready"
  /\ LET current_kpis == CalculateCurrentKpis(sensor_data)
         llm_result == LlmStep(llm)
         rules_result == EvaluateRules(sensor_data, current_kpis, trends)
         combined_decisions == CombineDecisions(rules_result, llm_result)
         filtered_decisions == ApplyStableUnlessBetterLogic(combined_decisions, current_kpis)
         locals ==
           [ sensor_data |-> sensor_data, current_kpis |-> current_kpis,
             trends |-> trends, rules_result |-> rules_result,
             llm_result |-> llm_result, combined_decisions |-> combined_decisions,
             filtered_decisions |-> filtered_decisions,
             executed |-> {}, dose_result |-> NoDoseResult ]
     IN IF combined_decisions.raised
          THEN /\ cyc' = [cyc EXCEPT ![t] =
                         locals @@ [success |-> "false", stored |-> "system_event",
                                    error |-> "TypeError"]]
               /\ pc' = [pc EXCEPT ![t] = "cleanup"]
               /\ db' = [db EXCEPT !.system_events = @ + 1]
          ELSE /\ cyc' = [cyc EXCEPT ![t] =
                         locals @@ [success |-> "running", stored |-> "none", error |-> ""]]
               /\ pc' = [pc EXCEPT ![t] = "execute"]
               /\ UNCHANGED db
  /\ UNCHANGED <<today, daily_doses, last_dose_reset, states, call,
                 fan_task, ncycles, dosed_today, ruleVars, timeline>>

\* _execute_actions, up to its first await: the emergency stop, or the entry of
\* dose_nutrients, or straight on to the fan and the LEDs
ExecuteActions(t) ==
  /\ pc[t] = "execute"
  /\ LET actions == cyc[t].filtered_decisions.filtered_actions IN
       IF actions.emergency_rollback THEN
         /\ states' = [states EXCEPT ![t] = EmergencyStop(@)]
         /\ cyc' = [cyc EXCEPT ![t].executed = {"emergency_stop"}]
         /\ pc' = [pc EXCEPT ![t] = "store"]
         /\ UNCHANGED <<today, daily_doses, last_dose_reset, call>>
       ELSE IF "dose" \in actions.keys THEN
         /\ DoseNutrientsCall(t, t, actions.dose)
         /\ pc' = [pc EXCEPT ![t] = "dosing"]
         /\ UNCHANGED cyc
       ELSE
         /\ pc' = [pc EXCEPT ![t] = "environment"]
         /\ UNCHANGED <<today, daily_doses, last_dose_reset, states, call, cyc>>
  /\ UNCHANGED <<fan_task, ncycles, dosed_today, ruleVars, auxVars>>

\* dose_nutrients inside the cycle: one iteration of its loop
CycleDoseLoop(t) ==
  /\ pc[t] = "dosing"
  /\ DoseLoopStep(t)
  /\ DosedAfter(t)
  /\ UNCHANGED <<cycVars, ruleVars, auxVars>>

\* dose_nutrients inside the cycle: a pump run ends
CycleDosePumpDone(t, success) ==
  /\ pc[t] = "dosing"
  /\ DosePumpDone(t, success)
  /\ DosedAfter(t)
  /\ UNCHANGED <<cycVars, ruleVars, auxVars>>

\* dose_nutrients returns to _execute_actions
CycleDoseReturn(t) ==
  /\ pc[t] = "dosing"
  /\ DoseNutrientsReturn(t)
  /\ cyc' = [cyc EXCEPT ![t].executed = @ \cup {"dosing"},
                        ![t].dose_result = [executed |-> call[t].executed,
                                            skipped |-> call[t].skipped,
                                            errors |-> call[t].errors]]
  /\ pc' = [pc EXCEPT ![t] = "environment"]
  /\ UNCHANGED <<fan_task, ncycles, dosed_today, ruleVars, auxVars>>

\* _execute_actions: control_fan and control_led
ExecuteEnvironment(t) ==
  /\ pc[t] = "environment"
  /\ LET actions == cyc[t].filtered_decisions.filtered_actions
         fan == "fan" \in actions.keys
         led == "led" \in actions.keys
         st1 == IF fan THEN ControlFan(states[t], actions.fan.fan_speed) ELSE states[t]
         st2 == IF led THEN ControlLed(st1, actions.led.led_power) ELSE st1
     IN /\ states' = [states EXCEPT ![t] = st2]
        /\ fan_task' = [fan_task EXCEPT ![t] = fan /\ actions.fan.duration_minutes # 0]
        /\ cyc' = [cyc EXCEPT ![t].executed =
                     @ \cup (IF fan THEN {"fan"} ELSE {}) \cup (IF led THEN {"led"} ELSE {})]
  /\ pc' = [pc EXCEPT ![t] = "store"]
  /\ UNCHANGED <<today, daily_doses, last_dose_reset, call, ncycles, dosed_today, ruleVars, auxVars>>

\* _auto_fan_shutoff wakes up while its process is still alive
AutoFanShutoff(t) ==
  /\ fan_task[t]
  /\ pc[t] \in {"store", "cleanup"}
  /\ states' = [states EXCEPT ![t] = ControlFan(@, 0)]
  /\ fan_task' = [fan_task EXCEPT ![t] = FALSE]
  /\ UNCHANGED <<today, daily_doses, last_dose_reset, call, pc, cyc, ncycles, dosed_today, ruleVars, auxVars>>

\* executed.get(pump, {}).get('ml', 0) on the "executed" dict of the action data
ExecutedMl(executed, pump) ==
  IF pump \in DOMAIN executed /\ "ml" \in DOMAIN executed[pump]
    THEN executed[pump]["ml"] ELSE 0

\* Database.store_actuator_action: the columns the dosing totals are computed from
StoreActuatorAction(action_data) ==
  [ pump_a_ml |-> ExecutedMl(action_data.executed, "pump_a"),
    pump_b_ml |-> ExecutedMl(action_data.executed, "pump_b"),
    ph_pump_ml |-> ExecutedMl(action_data.executed, "ph_pump"),
    refill_ml |-> ExecutedMl(action_data.executed, "refill"),
    success |-> action_data.errors = {} ]

\* KPICalculator._calculate_dosing_totals over the rows of the action history
RECURSIVE CalculateDosingTotals(_)
CalculateDosingTotals(actions) ==
  IF actions = <<>>
    THEN [ml_total |-> 0, pump_a_ml |-> 0, pump_b_ml |-> 0, ph_pump_ml |-> 0]
  ELSE LET rest == CalculateDosingTotals(Tail(actions))
           action == Head(actions)
           a == rest.pump_a_ml + (IF action.success THEN action.pump_a_ml ELSE 0)
           b == rest.pump_b_ml + (IF action.success THEN action.pump_b_ml ELSE 0)
           ph == rest.ph_pump_ml + (IF action.success THEN action.ph_pump_ml ELSE 0)
       IN [ml_total |-> a + b + ph, pump_a_ml |-> a, pump_b_ml |-> b, ph_pump_ml |-> ph]

\* execution_results of _execute_actions as the cycle hands it to
\* store_actuator_action: "executed" is keyed by emergency_stop, dosing, fan
\* and led, the dosing entry being the whole result of dose_nutrients
ExecutionResults(t) ==
  [ executed |->
      [key \in cyc[t].executed |->
         CASE key = "dosing" -> cyc[t].dose_result
           [] key = "fan" -> [fan_speed |-> states[t].fan_speed]
           [] key = "led" -> [led_power |-> states[t].led_power]
           [] OTHER -> [status |-> "all_actuators_stopped"]],
    errors |-> cyc[t].dose_result.errors ]

\* mutant: a dosing error makes the cycle return success False
StoreCycle_FailsOnDoseError(t) ==
  /\ pc[t] = "store"
  /\ cyc' = [cyc EXCEPT ![t].success = IF cyc[t].dose_result.errors # {} THEN "false" ELSE "true",
                        ![t].stored = IF cyc[t].executed # {} THEN "actuator_action" ELSE "none"]
  /\ db' = IF cyc[t].executed # {}
             THEN [db EXCEPT !.actuator_actions =
                     Append(@, StoreActuatorAction(ExecutionResults(t)))]
             ELSE db
  /\ pc' = [pc EXCEPT ![t] = "cleanup"]
  /\ UNCHANGED <<today, daily_doses, last_dose_reset, states, call,
                 fan_task, ncycles, dosed_today, ruleVars, timeline>>

\* run_control_cycle, step 8: the cycle is stored when something was executed
StoreCycle(t) ==
  /\ pc[t] = "store"
  /\ cyc' = [cyc EXCEPT ![t].success = "true",
                        ![t].stored = IF cyc[t].executed # {} THEN "actuator_action" ELSE "none"]
  /\ db' = IF cyc[t].executed # {}
             THEN [db EXCEPT !.actuator_actions =
                     Append(@, StoreActuatorAction(ExecutionResults(t)))]
             ELSE db
  /\ pc' = [pc EXCEPT ![t] = "cleanup"]
  /\ UNCHANGED <<today, daily_doses, last_dose_reset, states, call,
                 fan_task, ncycles, dosed_today, ruleVars, timeline>>

\* main(), finally: cleanup shuts the actuators down and the process exits
Cleanup(t) ==
  /\ pc[t] = "cleanup"
  /\ states' = [states EXCEPT ![t] = EmergencyStop(@)]
  /\ fan_task' = [fan_task EXCEPT ![t] = FALSE]
  /\ cyc' = [cyc EXCEPT ![t] = NoCycle]
  /\ pc' = [pc EXCEPT ![t] = "idle"]
  /\ UNCHANGED <<today, daily_doses, last_dose_reset, call, ncycles, dosed_today, ruleVars, auxVars>>

\* -------------------------------------------------------- inputs of a cycle
\* SensorInterface.read_all: the readings the cycle uses, a missing one being
\* None (pH and EC in hundredths, temperature in tenths of a degree, humidity in
\* percent, CO2 in ppm, light in lux)
Readings(ph, ec, temperature, humidity, co2, light) ==
  [ water |-> [ph |-> ph, ec |-> ec],
    air |-> [temperature |-> temperature, humidity |-> humidity, co2 |-> co2],
    light |-> light ]

Lux(v) == [lux |-> v]
NoLight == [q \in {} |-> None]

\* readings with health 0.59, 0.6 and 0.61 and no pH probe
Health059 == Readings(None, Some(160), Some(220), Some(40), Some(300), Lux(Some(10000)))
Health060 == Readings(None, Some(160), Some(220), Some(60), None, Lux(Some(10000)))
Health061 == Readings(None, Some(160), Some(220), Some(60), Some(220), Lux(Some(10000)))

SensorCases ==
  { Readings(Some(600), Some(160), Some(220), Some(60), Some(800), Lux(Some(10000))),
    Readings(Some(600), Some(160), Some(220), None, Some(800), Lux(Some(10000))),
    Readings(Some(680), Some(170), Some(255), Some(85), Some(800), Lux(Some(10000))),
    Readings(Some(500), Some(100), Some(190), Some(60), None, Lux(Some(35000))),
    Readings(None, Some(210), Some(220), Some(60), Some(800), Lux(Some(35000))),
    Readings(None, Some(140), Some(255), Some(85), Some(800), Lux(None)),
    Readings(None, None, Some(220), None, None, Lux(Some(10000))),
    Readings(None, None, None, None, None, NoLight),
    Health059, Health060, Health061 }

\* a dict with nothing but "error" and a timestamp
ErrorDict == [error |-> Some(1)]

\* calculate_7day_trends: the trend values, or the error dict
Trends(ph_in_spec, ec_in_spec, health_avg, ml_total) ==
  [ ph_in_spec_7day |-> Some(ph_in_spec), ec_in_spec_7day |-> Some(ec_in_spec),
    health_7day_avg |-> Some(health_avg), ml_total_7day |-> Some(ml_total) ]

TrendCases ==
  { Trends(800, 800, 700, 30 * MlScale),
    Trends(850, 960, 900, 70 * MlScale),
    Trends(990, 990, 960, 30 * MlScale),
    ErrorDict }

\* the JSON object the model replies with: whether it has an "error" key, and
\* the decision entries it carries either at its top level or under "decisions"
Response(has_error, level, keys, dose, fan, led) ==
  [ has_error |-> has_error, level |-> level, keys |-> keys,
    dose |-> dose, fan |-> fan, led |-> led ]

\* what step 4 of the cycle has to go on: no agent, an agent that raises, or a reply
LlmOff == [mode |-> "off", response |-> Response(FALSE, "decisions", {}, <<>>, NoFan, NoLed)]
LlmRaises == [mode |-> "raises", response |-> Response(FALSE, "decisions", {}, <<>>, NoFan, NoLed)]
LlmReplies(response) == [mode |-> "replies", response |-> response]

DoseA == <<Cmd("pump_a", 10 * MlScale)>>
DoseAPh == <<Cmd("pump_a", 10 * MlScale), Cmd("ph_pump", 30 * MlScale)>>

LlmCases ==
  { LlmOff,
    LlmRaises,
    LlmReplies(Response(FALSE, "decisions", {"dose"}, DoseA, NoFan, NoLed)),
    LlmReplies(Response(TRUE, "decisions", {"dose"}, DoseA, NoFan, NoLed)),
    LlmReplies(Response(TRUE, "top", {"dose"}, DoseA, NoFan, NoLed)),
    LlmReplies(Response(TRUE, "top", {"dose", "fan"}, DoseAPh,
                        [fan_speed |-> 80, duration_minutes |-> 0], NoLed)),
    LlmReplies(Response(TRUE, "top", {"fan", "led", "heater"}, <<>>,
                        [fan_speed |-> 150, duration_minutes |-> 30], [led_power |-> 120])) }

\* ------------------------------------------- control cycles, one after another
Start == Initialize(1)

Decide ==
  \E sensor_data \in SensorCases, trends \in TrendCases, llm \in LlmCases :
    RunControlCycle(1, sensor_data, trends, llm)

Execute == ExecuteActions(1)

DoseLoop == CycleDoseLoop(1)

DosePump == \E success \in BOOLEAN : CycleDosePumpDone(1, success)

DoseReturn == CycleDoseReturn(1)

Environment == ExecuteEnvironment(1)

FanShutoff == AutoFanShutoff(1)

Store == StoreCycle(1)

Exit == Cleanup(1)

Next ==
  \/ Start \/ Decide \/ Execute \/ DoseLoop \/ DosePump \/ DoseReturn
  \/ Environment \/ FanShutoff \/ Store \/ Exit \/ Midnight

Spec == Init /\ [][Next]_vars

\* ------------------------------------------------ control cycles, as triggered
\* the processes are started by the timer or by hand, whatever the others do
SchedSensors == {Health059, Health060}

SchedLlm == {LlmOff, LlmReplies(Response(TRUE, "top", {"dose"}, DoseA, NoFan, NoLed))}

SchedStart == \E t \in Tasks : Initialize(t)

SchedDecide ==
  \E t \in Tasks, sensor_data \in SchedSensors, llm \in SchedLlm :
    RunControlCycle(t, sensor_data, ErrorDict, llm)

SchedExecute == \E t \in Tasks : ExecuteActions(t)

SchedDoseLoop == \E t \in Tasks : CycleDoseLoop(t)

SchedDosePump == \E t \in Tasks, success \in BOOLEAN : CycleDosePumpDone(t, success)

SchedDoseReturn == \E t \in Tasks : CycleDoseReturn(t)

SchedEnvironment == \E t \in Tasks : ExecuteEnvironment(t)

SchedStore == \E t \in Tasks : StoreCycle(t)

SchedExit == \E t \in Tasks : Cleanup(t)

NextSched ==
  \/ SchedStart \/ SchedDecide \/ SchedExecute \/ SchedDoseLoop \/ SchedDosePump
  \/ SchedDoseReturn \/ SchedEnvironment \/ SchedStore \/ SchedExit \/ Midnight

SpecSched == Init /\ [][NextSched]_vars

\* ---------------------------------------------- direct use of one controller
\* ml values a caller may hand over, per pump name (tenths of a millilitre)
NegativeMl == -50 * MlScale

MlValues(name) ==
  CASE name = "pump_a"  -> {NegativeMl, 0, 50 * MlScale, 50 * MlScale + 1}
    [] name = "pump_b"  -> {0, 50 * MlScale, 50 * MlScale + 1}
    [] name = "ph_pump" -> {0, 20 * MlScale, 20 * MlScale + 1}
    [] name = "refill"  -> {0, 1000 * MlScale, 1000 * MlScale + 1}
    [] OTHER            -> {5 * MlScale}

CmdNames == DosePumps \cup {"badpump"}

\* dosing_commands dicts: every single entry, and some dicts of two entries
CmdDicts ==
  UNION {{<<Cmd(n, m)>> : m \in MlValues(n)} : n \in CmdNames}
  \cup { <<Cmd("pump_a", 50 * MlScale), Cmd("badpump", 5 * MlScale)>>,
         <<Cmd("pump_a", 50 * MlScale + 1), Cmd("pump_b", 50 * MlScale)>>,
         <<Cmd("ph_pump", 20 * MlScale), Cmd("refill", 1000 * MlScale)>> }

\* the inputs are kept inside the ledger bounds of the model
WithinLedgerBounds(k, cmds) ==
  LET ledger == IF ResetNeeded(today, last_dose_reset[k]) THEN EmptyLedger ELSE daily_doses[k]
  IN \A a \in 1..Len(cmds) :
       /\ LedgerGet(ledger, cmds[a].name) + cmds[a].ml >= MaxNegative * NegativeMl
       /\ cmds[a].name = "refill" =>
            LedgerGet(ledger, "refill") + cmds[a].ml <= MaxRefills * SAFETY_LIMITS.refill_max_ml

ActDose ==
  \E cmds \in CmdDicts :
    /\ WithinLedgerBounds(1, cmds)
    /\ DoseNutrientsCall(1, 1, cmds)
    /\ UNCHANGED <<pc, cyc, fan_task, ncycles, dosed_today, ruleVars, auxVars>>

ActLoop == DoseLoopStep(1) /\ UNCHANGED <<pc, cyc, fan_task, ncycles, dosed_today, ruleVars, auxVars>>

ActPumpDone ==
  \E success \in BOOLEAN :
    DosePumpDone(1, success) /\ UNCHANGED <<pc, cyc, fan_task, ncycles, dosed_today, ruleVars, auxVars>>

ActReturn ==
  DoseNutrientsReturn(1) /\ UNCHANGED <<pc, cyc, fan_task, ncycles, dosed_today, ruleVars, auxVars>>

ActTick == Tick /\ UNCHANGED <<pc, cyc, fan_task, ncycles, dosed_today, ruleVars, auxVars>>

NextActuator == ActDose \/ ActLoop \/ ActPumpDone \/ ActReturn \/ ActTick

SpecActuator == Init /\ [][NextActuator]_vars

\* ------------------------------ one controller used by two tasks of one loop
\* the dosing commands the tasks hand over
SharedCmds ==
  { <<Cmd("pump_a", 50 * MlScale)>>,
    <<Cmd("pump_a", 50 * MlScale), Cmd("refill", 1000 * MlScale)>> }

\* a task calls dose_nutrients of the shared controller
SharedDoseNutrients ==
  \E t \in Tasks, cmds \in SharedCmds :
    /\ WithinLedgerBounds(1, cmds)
    /\ DoseNutrientsCall(t, 1, cmds)
    /\ timeline' = [timeline EXCEPT !.stopped = FALSE]
    /\ UNCHANGED <<pc, cyc, fan_task, ncycles, dosed_today, ruleVars, db>>

\* the loop of a dose_nutrients call goes on to its next command
SharedDoseLoop ==
  \E t \in Tasks :
    DoseLoopStep(t)
    /\ UNCHANGED <<pc, cyc, fan_task, ncycles, dosed_today, ruleVars, auxVars>>

\* a pump run of a dose_nutrients call ends
SharedDosePumpDone ==
  \E t \in Tasks, success \in BOOLEAN :
    DosePumpDone(t, success)
    /\ UNCHANGED <<pc, cyc, fan_task, ncycles, dosed_today, ruleVars, auxVars>>

\* a dose_nutrients call returns
SharedDoseReturn ==
  \E t \in Tasks :
    DoseNutrientsReturn(t)
    /\ UNCHANGED <<pc, cyc, fan_task, ncycles, dosed_today, ruleVars, auxVars>>

\* control_fan(speed_percent, duration_minutes) by a caller: the speed is set
\* and, with a duration, a new _auto_fan_shutoff task is created; the tasks
\* created by earlier calls stay pending
FanCommand(speed_percent, duration_minutes) ==
  /\ duration_minutes # 0 => Len(timeline.shutoffs) < MaxTimers
  /\ states' = [states EXCEPT ![1] = ControlFan(@, speed_percent)]
  /\ timeline' =
       [timeline EXCEPT
          !.shutoffs = IF duration_minutes # 0
                         THEN Append(@, timeline.now + duration_minutes) ELSE @,
          !.fan_speed = Max(0, Min(100, speed_percent)),
          !.fan_until = IF duration_minutes # 0
                          THEN timeline.now + duration_minutes ELSE 0,
          !.stopped = FALSE]
  /\ UNCHANGED <<today, daily_doses, last_dose_reset, call,
                 pc, cyc, fan_task, ncycles, dosed_today, ruleVars, db>>

\* _auto_fan_shutoff: the sleep of a pending task is over and it calls control_fan(0)
AutoFanShutoffWakes ==
  \E j \in 1..Len(timeline.shutoffs) :
    /\ timeline.shutoffs[j] <= timeline.now
    /\ states' = [states EXCEPT ![1] = ControlFan(@, 0)]
    /\ timeline' = [timeline EXCEPT !.shutoffs =
                      SubSeq(@, 1, j - 1) \o SubSeq(@, j + 1, Len(@))]
    /\ UNCHANGED <<today, daily_doses, last_dose_reset, call,
                   pc, cyc, fan_task, ncycles, dosed_today, ruleVars, db>>

\* control_led(power_percent) by a caller
LedCommand(power_percent) ==
  /\ states' = [states EXCEPT ![1] = ControlLed(@, power_percent)]
  /\ timeline' = [timeline EXCEPT !.stopped = FALSE]
  /\ UNCHANGED <<today, daily_doses, last_dose_reset, call,
                 pc, cyc, fan_task, ncycles, dosed_today, ruleVars, db>>

\* emergency_stop by a caller: it has no await and runs to its return at once;
\* no dose_nutrients call in flight and no pending task is cancelled
EmergencyStopCommand ==
  /\ states' = [states EXCEPT ![1] = EmergencyStop(@)]
  /\ timeline' = [timeline EXCEPT !.fan_speed = 0, !.fan_until = 0, !.stopped = TRUE]
  /\ UNCHANGED <<today, daily_doses, last_dose_reset, call,
                 pc, cyc, fan_task, ncycles, dosed_today, ruleVars, db>>

\* a minute passes on the clock of the event loop
ClockTick ==
  /\ timeline.now < MaxClock
  /\ timeline' = [timeline EXCEPT !.now = @ + 1]
  /\ UNCHANGED <<today, daily_doses, last_dose_reset, states, call,
                 pc, cyc, fan_task, ncycles, dosed_today, ruleVars, db>>

SharedDayTick ==
  Tick /\ UNCHANGED <<pc, cyc, fan_task, ncycles, dosed_today, ruleVars, auxVars>>

\* two tasks dose through one controller while fan, LED and stop commands arrive
NextShared ==
  \/ SharedDoseNutrients \/ SharedDoseLoop \/ SharedDosePumpDone \/ SharedDoseReturn
  \/ FanCommand(80, 0) \/ LedCommand(70) \/ EmergencyStopCommand \/ SharedDayTick

SpecShared == Init /\ [][NextShared]_vars

\* fan commands with and without a duration (minutes)
TimedFan == \E speed_percent \in {60, 80, 150}, duration_minutes \in {0, 1, 2} :
              FanCommand(speed_percent, duration_minutes)

\* fan commands, their shutoff tasks, and LED and stop commands on one controller
NextFan ==
  \/ TimedFan \/ AutoFanShutoffWakes \/ LedCommand(70) \/ EmergencyStopCommand \/ ClockTick

SpecFan == Init /\ [][NextFan]_vars

\* ------------------------------------------------ direct use of the rule engine
\* config["reservoir_volume_l"] as a deployment may set it: the default, and a
\* tank large enough for a dose to exceed the single-dose limits
ReservoirVolumes == {20, 250}

\* calculate_7day_trends: the pH, EC and health entries are present only when
\* the history has values for them (None: the entry is absent)
TrendsOf(ph_in_spec, ec_in_spec, health_avg, ml_total) ==
  LET keys == (IF IsNone(ph_in_spec) THEN {} ELSE {"ph_in_spec_7day"})
              \cup (IF IsNone(ec_in_spec) THEN {} ELSE {"ec_in_spec_7day"})
              \cup (IF IsNone(health_avg) THEN {} ELSE {"health_7day_avg"})
              \cup {"ml_total_7day"}
  IN [q \in keys |->
        CASE q = "ph_in_spec_7day" -> ph_in_spec
          [] q = "ec_in_spec_7day" -> ec_in_spec
          [] q = "health_7day_avg" -> health_avg
          [] OTHER -> Some(ml_total)]

RuleTrendCases ==
  { TrendsOf(ph_in_spec, ec_in_spec, health_avg, ml_total) :
      ph_in_spec \in {None, Some(850), Some(900), Some(949), Some(950)},
      ec_in_spec \in {None, Some(800), Some(949), Some(950), Some(960)},
      health_avg \in {None, Some(949), Some(950)},
      ml_total \in {30 * MlScale, 70 * MlScale} }
  \cup {ErrorDict}

\* air and light readings: in range, hot, hot and humid and bright, humid,
\* cold, and without the probes
RuleAirCases ==
  { <<Some(220), Some(60), Lux(Some(10000))>>,
    <<Some(255), Some(60), Lux(Some(10000))>>,
    <<Some(255), Some(85), Lux(Some(35000))>>,
    <<Some(220), Some(85), Lux(Some(10000))>>,
    <<Some(190), Some(60), Lux(Some(35000))>>,
    <<None, None, NoLight>> }

\* (EC 1.56 is left out: in the large tank the doubles put its dose a hair
\* above the 50 ml the exact product gives)
RuleSensorCases ==
  { Readings(ph, ec, air[1], air[2], Some(800), air[3]) :
      ph \in {None, Some(500), Some(580), Some(581), Some(600), Some(619),
               Some(620), Some(680)},
      ec \in {None, Some(130), Some(157), Some(160), Some(210)},
      air \in RuleAirCases }

\* a KPI dict as a caller builds it
KpisDays(health_score, days_since_reservoir_change) ==
  [ health_score |-> Some(health_score),
    days_since_reservoir_change |-> Some(days_since_reservoir_change) ]

\* the KPIs handed to evaluate_rules: those of the readings, or a dict of the
\* caller's own
RuleKpiCases(sensor_data) ==
  { CalculateCurrentKpis(sensor_data), Kpis(799), Kpis(800), KpisDays(950, 14) }

\* RulesEngine(config, db) is built for a reservoir of the given volume
Construct ==
  /\ engine_call = NoCall
  /\ \E v \in ReservoirVolumes : reservoir_volume_l' = v
  /\ UNCHANGED <<today, daily_doses, last_dose_reset, states, call,
                 pc, cyc, fan_task, ncycles, dosed_today, engine_call, auxVars>>

\* mutant: the evaluation leaves a changed configuration behind in the engine
CallEvaluateRules_WritesConfig ==
  /\ engine_call = NoCall
  /\ \E sensor_data \in RuleSensorCases, trends \in RuleTrendCases :
       \E current_kpis \in RuleKpiCases(sensor_data) :
         engine_call' =
           [ op |-> "evaluate_rules", sensor_data |-> sensor_data,
             current_kpis |-> current_kpis, trends |-> trends,
             result |-> EvaluateRules(sensor_data, current_kpis, trends) ]
  /\ reservoir_volume_l' = 250
  /\ UNCHANGED <<today, daily_doses, last_dose_reset, states, call,
                 pc, cyc, fan_task, ncycles, dosed_today, auxVars>>

\* evaluate_rules(sensor_data, current_kpis), the trends being what
\* calculate_7day_trends returns inside it
CallEvaluateRules ==
  /\ engine_call = NoCall
  /\ \E sensor_data \in RuleSensorCases, trends \in RuleTrendCases :
       \E current_kpis \in RuleKpiCases(sensor_data) :
         engine_call' =
           [ op |-> "evaluate_rules", sensor_data |-> sensor_data,
             current_kpis |-> current_kpis, trends |-> trends,
             result |-> EvaluateRules(sensor_data, current_kpis, trends) ]
  /\ UNCHANGED <<today, daily_doses, last_dose_reset, states, call,
                 pc, cyc, fan_task, ncycles, dosed_today, reservoir_volume_l, auxVars>>

\* evaluate_rules is called once more on the same engine, with the same
\* sensor data and KPIs and the same rollups in the database (the same trends);
\* the engine's attributes are as the first call left them
CallEvaluateRulesAgain ==
  /\ engine_call.op = "evaluate_rules"
  /\ engine_call' =
       [ op |-> "evaluate_rules_again", sensor_data |-> engine_call.sensor_data,
         current_kpis |-> engine_call.current_kpis, trends |-> engine_call.trends,
         first |-> engine_call.result,
         result |-> EvaluateRules(engine_call.sensor_data, engine_call.current_kpis,
                                  engine_call.trends) ]
  /\ UNCHANGED <<today, daily_doses, last_dose_reset, states, call,
                 pc, cyc, fan_task, ncycles, dosed_today, reservoir_volume_l, auxVars>>

\* the KPI dict of a caller that tracks the in-spec rates (thousandths)
ChangeKpis(health_score, ph_in_spec, ec_in_spec) ==
  [ health_score |-> Some(health_score), ph_in_spec |-> Some(ph_in_spec),
    ec_in_spec |-> Some(ec_in_spec) ]

\* the KPIs after a configuration change: a little lower than before it, higher
\* than before it, and with a health score below 0.6
ChangeKpiCases ==
  { ChangeKpis(850, 900, 880), ChangeKpis(950, 960, 950), ChangeKpis(590, 900, 880) }

\* hours since the configuration change: inside and outside the 48 hours of
\* rollback_check_hours
ChangeHoursCases == {1, 47, 49}

\* evaluate_rules on an engine whose caller has set _last_config_change_time
\* and _previous_kpis (health 0.9, pH in spec 0.95, EC in spec 0.9) after
\* changing the configuration; the code of the engine reads neither attribute,
\* so the result is that of evaluate_rules on the sensor data, KPIs and trends
CallEvaluateRulesAfterChange ==
  /\ engine_call = NoCall
  /\ \E hours \in ChangeHoursCases, current_kpis \in ChangeKpiCases :
       LET sensor_data == Readings(Some(600), Some(160), Some(240), Some(60),
                                   Some(800), Lux(Some(25000)))
           trends == TrendsOf(Some(950), Some(950), None, 40 * MlScale)
       IN engine_call' =
            [ op |-> "evaluate_rules_after_change",
              hours_since_change |-> hours,
              previous_kpis |-> ChangeKpis(900, 950, 900),
              sensor_data |-> sensor_data, current_kpis |-> current_kpis,
              trends |-> trends,
              result |-> EvaluateRules(sensor_data, current_kpis, trends) ]
  /\ UNCHANGED <<today, daily_doses, last_dose_reset, states, call,
                 pc, cyc, fan_task, ncycles, dosed_today, reservoir_volume_l, auxVars>>

\* a kpi_rollups row: the columns calculate_7day_trends reads (None: NULL)
Rollup(ph_avg, ph_in_spec_pct, ec_avg, ec_in_spec_pct, health_score, ml_total) ==
  [ ph_avg |-> ph_avg, ph_in_spec_pct |-> ph_in_spec_pct, ec_avg |-> ec_avg,
    ec_in_spec_pct |-> ec_in_spec_pct, health_score |-> health_score,
    ml_total |-> Some(ml_total) ]

\* the sum of a column over the rows
RECURSIVE SumColumn(_, _)
SumColumn(kpi_history, column) ==
  IF kpi_history = <<>> THEN 0
  ELSE Val(Head(kpi_history)[column]) + SumColumn(Tail(kpi_history), column)

\* the error dict, or the trends: each group is present when some row has a
\* value for its average, and statistics.mean raises on a NULL among the
\* in-spec percentages it averages over all rows
TrendsOfHistory(kpi_history) ==
  LET n == Len(kpi_history)
      some(column) == \E j \in 1..n : ~IsNone(kpi_history[j][column])
      all(column) == \A j \in 1..n : ~IsNone(kpi_history[j][column])
      rows(column) == SelectSeq(kpi_history, LAMBDA k : ~IsNone(k[column]))
      raises == \/ some("ph_avg") /\ ~all("ph_in_spec_pct")
                \/ some("ec_avg") /\ ~all("ec_in_spec_pct")
  IN IF raises THEN ErrorDict
     ELSE TrendsOf(
            IF some("ph_avg") THEN Some(RoundDiv(SumColumn(kpi_history, "ph_in_spec_pct"), n))
                              ELSE None,
            IF some("ec_avg") THEN Some(RoundDiv(SumColumn(kpi_history, "ec_in_spec_pct"), n))
                              ELSE None,
            IF some("health_score")
              THEN Some(RoundDiv(SumColumn(rows("health_score"), "health_score"),
                                 Len(rows("health_score"))))
              ELSE None,
            SumColumn(kpi_history, "ml_total"))

\* mutant: a single rollup is enough for the trends
Calculate7DayTrends_OnePoint(kpi_history) ==
  IF Len(kpi_history) < 1 THEN ErrorDict ELSE TrendsOfHistory(kpi_history)

\* calculate_7day_trends on the rows get_kpi_history(days=7) returns
Calculate7DayTrends(kpi_history) ==
  IF Len(kpi_history) < 2 THEN ErrorDict ELSE TrendsOfHistory(kpi_history)

\* rollups: a good period, a poor one, and one without pH readings and without
\* a complete reading for the health score
RollupCases ==
  { Rollup(Some(600), Some(960), Some(160), Some(960), Some(960), 30 * MlScale),
    Rollup(Some(680), Some(800), Some(130), Some(800), Some(700), 40 * MlScale),
    Rollup(None, None, Some(160), Some(900), None, 0) }

\* the most rollups a history holds here
MaxRollups == 3

\* the 7-day histories: every sequence of up to MaxRollups rollups
HistoryCases ==
  UNION {[1..n -> RollupCases] : n \in 0..MaxRollups}

\* calculate_7day_trends() with the given rollups in the database
CallCalculate7DayTrends ==
  /\ engine_call = NoCall
  /\ \E kpi_history \in HistoryCases :
       engine_call' =
         [ op |-> "calculate_7day_trends", kpi_history |-> kpi_history,
           result |-> Calculate7DayTrends(kpi_history) ]
  /\ UNCHANGED <<today, daily_doses, last_dose_reset, states, call,
                 pc, cyc, fan_task, ncycles, dosed_today, reservoir_volume_l, auxVars>>

\* dose dicts handed to the filter: the one of the tests, doses as the pH and
\* EC rules build them (with their "type" entry), and none
ProposedDoses ==
  { <<Cmd("pump_a", 10 * MlScale), Cmd("pump_b", 5 * MlScale)>>,
    <<Cmd("type", 0), Cmd("ph_pump", 2 * MlScale)>>,
    <<Cmd("type", 0), Cmd("ph_pump", 175)>>,
    <<Cmd("type", 0), Cmd("pump_a", 6 * MlScale), Cmd("pump_b", 4 * MlScale)>>,
    <<>> }

\* proposed_actions: a dose or not, with or without fan, LED and other entries,
\* or the emergency rollback
ProposedCases ==
  { Combined(FALSE, FALSE,
             (IF dose = <<>> THEN {} ELSE {"dose"}) \cup other, dose,
             IF dose = <<>> THEN "" ELSE "rules",
             IF "fan" \in other THEN [fan_speed |-> 70, duration_minutes |-> 30] ELSE NoFan,
             IF "led" \in other THEN [led_power |-> 70] ELSE NoLed) :
      dose \in ProposedDoses,
      other \in {{}, {"fan"}, {"fan", "led"}, {"led", "heater", "config_change", "reservoir"}} }
  \cup {Combined(FALSE, TRUE, {}, <<>>, "", NoFan, NoLed)}

\* current_performance: health scores around the two thresholds, and a dict
\* without a health score
PerformanceCases ==
  {Kpis(h) : h \in {0, 600, 800, 801, 900, 901, 950, 1000}}
  \cup {[days_since_reservoir_change |-> Some(5)]}

\* apply_stable_unless_better_logic(proposed_actions, current_performance)
CallApplyStableUnlessBetterLogic ==
  /\ engine_call = NoCall
  /\ \E proposed_actions \in ProposedCases, current_performance \in PerformanceCases :
       engine_call' =
         [ op |-> "apply_stable_unless_better_logic",
           proposed_actions |-> proposed_actions,
           current_performance |-> current_performance,
           result |-> ApplyStableUnlessBetterLogic(proposed_actions, current_performance) ]
  /\ UNCHANGED <<today, daily_doses, last_dose_reset, states, call,
                 pc, cyc, fan_task, ncycles, dosed_today, reservoir_volume_l, auxVars>>

\* the caller is done with the result
CallReturns ==
  /\ engine_call # NoCall
  /\ engine_call' = NoCall
  /\ UNCHANGED <<today, daily_doses, last_dose_reset, states, call,
                 pc, cyc, fan_task, ncycles, dosed_today, reservoir_volume_l, auxVars>>

NextRules ==
  \/ Construct \/ CallEvaluateRules \/ CallEvaluateRulesAgain
  \/ CallEvaluateRulesAfterChange \/ CallCalculate7DayTrends
  \/ CallApplyStableUnlessBetterLogic \/ CallReturns

SpecRules == Init /\ [][NextRules]_vars

\* ------------------------------------------------------------------ claims
\* the limits as the claims state them, in tenths of a millilitre
ClaimCeiling(name) ==
  CASE name = "ph_pump" -> 20 * MlScale
    [] name = "pump_a"  -> 50 * MlScale
    [] name = "pump_b"  -> 50 * MlScale
    [] name = "refill"  -> 1000 * MlScale

ClaimDailyLimit == 200 * MlScale

\* task t is about to handle a command of its dosing_commands
Handling(t) == call[t].st = "loop" /\ call[t].i <= Len(call[t].cmds)

\* the step handles the current command of task t
Handles(t) == Handling(t) /\ call'[t] # call[t]

\* the current command of task t violates a limit at check time
ViolatesLimit(t) ==
  LET name == CurCmd(t).name
      ml == CurCmd(t).ml
  IN \/ ml > ClaimCeiling(name)
     \/ /\ name # "refill"
        /\ LedgerGet(daily_doses[call[t].ctl], name) + ml > ClaimDailyLimit

\* C1: a pump is started, or a dose reported executed, only for a command whose
\* ml is within the pump's single-dose ceiling and, for a non-refill pump, whose
\* ledger value at check time plus ml is at most 200 ml; a command violating
\* either limit goes to 'skipped', starts no pump and is not executed.
C1_OnlySafeDosesRun ==
  [][\A t \in Tasks :
       (Handles(t) /\ CurCmd(t).name \in DosePumps) =>
         LET name == CurCmd(t).name IN
           IF ViolatesLimit(t)
             THEN /\ \E r \in call'[t].skipped : r.pump = name
                  /\ name \notin call'[t].executed
                  /\ call'[t].st # "pumping"
                  /\ states' = states
                  /\ daily_doses' = daily_doses
             ELSE /\ \A r \in call'[t].skipped : r.pump # name
                  /\ call'[t].st = "pumping" \/ name \in call'[t].executed]_vars

\* C1 witness: a dose was skipped on the daily limit and another one over the
\* single-dose ceiling while the controller had already dosed 200 ml on pump_a
C1_Witness ==
  /\ LedgerGet(daily_doses[1], "pump_a") = ClaimDailyLimit
  /\ \E r \in call[1].skipped : r.pump = "pump_a" /\ r.reason = "daily_dose_limit"

\* C3: a dosing command with ml <= 0 is rejected by the safety check, so it is
\* never reported as executed.
C3_NonPositiveNeverExecuted ==
  \A t \in Tasks :
    \A a \in 1..Len(call[t].cmds) :
      call[t].cmds[a].ml <= 0 => call[t].cmds[a].name \notin call[t].executed

\* the positive volumes the daily-limit claim is probed with
ProbeMl ==
  {1, 5 * MlScale, 10 * MlScale, 20 * MlScale, 50 * MlScale, 1000 * MlScale}

\* C4: for ml > 0 within the single-dose ceiling the check rejects with a
\* daily-limit reason exactly when ledger[pump] + ml > 200 ml on a non-refill
\* pump, and accepts otherwise; refill is never rejected on the daily limit.
C4_DailyLimitExact ==
  \A k \in Tasks : \A p \in DosePumps : \A ml \in ProbeMl :
    ml <= ClaimCeiling(p) =>
      LET r == CheckDosingSafety(daily_doses[k], p, ml) IN
        IF p # "refill" /\ LedgerGet(daily_doses[k], p) + ml > ClaimDailyLimit
          THEN ~r.safe /\ r.reason = "daily_dose_limit"
          ELSE r.safe

\* C4 witness: ph_pump has dosed 200 ml today and a further dose within its
\* ceiling was skipped on the daily limit, while a refill of 1000 ml was accepted
C4_Witness ==
  /\ LedgerGet(daily_doses[1], "ph_pump") = ClaimDailyLimit
  /\ LedgerGet(daily_doses[1], "refill") = 1000 * MlScale
  /\ [pump |-> "ph_pump", reason |-> "daily_dose_limit"] \in call[1].skipped

\* the step reports a successful dose of pump p by task t
DoseSucceeds(t, p) ==
  /\ call[t].st \in {"loop", "pumping"}
  /\ call[t].i <= Len(call[t].cmds)
  /\ CurCmd(t).name = p
  /\ p \notin call[t].executed
  /\ p \in call'[t].executed

\* the step is the entry of a dose_nutrients call on controller k
CallEnters(t, k) ==
  /\ call[t].st = "idle"
  /\ call'[t].st = "loop"
  /\ call'[t].ctl = k

\* the ledger entry of pump p of controller k follows the original C5
LedgerStepByDoseOnly(k, p) ==
  /\ LedgerGet(daily_doses'[k], p) # LedgerGet(daily_doses[k], p) =>
       \E t \in Tasks : call[t].ctl = k /\ DoseSucceeds(t, p)
  /\ \A t \in Tasks :
       (call[t].ctl = k /\ DoseSucceeds(t, p)) =>
         LedgerGet(daily_doses'[k], p) = LedgerGet(daily_doses[k], p) + CurCmd(t).ml

\* C5 as stated: a ledger entry changes only when dose_nutrients executed a
\* dose on that pump successfully, and then by exactly the dosed ml.
C5_Original ==
  [][\A k \in Tasks : \A p \in DosePumps : LedgerStepByDoseOnly(k, p)]_vars

\* C5 as amended: a ledger entry changes only when dose_nutrients executed a
\* dose on that pump successfully, and then by exactly the dosed ml, or when a
\* dose_nutrients call made on a later local date than last_dose_reset empties
\* the ledger on entry; skipped doses, failed doses and unknown pump names
\* leave every entry unchanged.
C5_LedgerFrame ==
  [][\A k \in Tasks : \A p \in DosePumps :
       \/ LedgerStepByDoseOnly(k, p)
       \/ /\ \E t \in Tasks : CallEnters(t, k)
          /\ today > last_dose_reset[k]
          /\ daily_doses'[k] = EmptyLedger]_vars

\* C5 witness: in one call the ph_pump dose succeeded and the refill dose
\* failed, and the ledger holds exactly the successful one
C5_Witness ==
  /\ call[1].st = "loop"
  /\ call[1].executed = {"ph_pump"}
  /\ call[1].errors = {"refill"}
  /\ daily_doses[1] = [q \in {"ph_pump"} |-> 20 * MlScale]

\* C7: a dose_nutrients call entered on a local date later than
\* last_dose_reset empties the ledger and sets last_dose_reset to that date
\* before any command of the call is checked; a call entered on the same date
\* leaves both unchanged.
C7_ResetAtDayBoundary ==
  [][\A t \in Tasks : \A k \in Tasks :
       CallEnters(t, k) =>
         /\ call'[t].i = 1 /\ call'[t].executed = {} /\ call'[t].skipped = {}
         /\ IF today > last_dose_reset[k]
              THEN daily_doses'[k] = EmptyLedger /\ last_dose_reset'[k] = today
              ELSE daily_doses'[k] = daily_doses[k] /\
                   last_dose_reset'[k] = last_dose_reset[k]]_vars

\* C7 witness: a call entered on the date after construction has moved
\* last_dose_reset to that date and dosed pump_a on the emptied ledger
C7_Witness ==
  /\ today = 1
  /\ last_dose_reset[1] = 1
  /\ call[1].st = "loop"
  /\ "pump_a" \in call[1].executed
  /\ daily_doses[1] = [q \in {"pump_a"} |-> 50 * MlScale]

\* run_control_cycle of process t has made its decisions
Decided(t) == cyc[t].success # "none"

\* the current health score of the cycle of process t is below 0.6
HealthBelowRollback(t) ==
  /\ "health_score" \in DOMAIN cyc[t].current_kpis
  /\ Val(cyc[t].current_kpis["health_score"]) < 600

\* every actuator of controller k is off
AllStopped(k) ==
  /\ \A q \in DOMAIN states[k].pumps : ~states[k].pumps[q]
  /\ states[k].fan_speed = 0
  /\ states[k].led_power = 0

\* C2: in a control cycle whose health score is below 0.6 the rule engine
\* returns no action other than the rollback, the combined decisions are the
\* single emergency_rollback entry, and the only actuator operation executed is
\* emergency_stop: no dose_nutrients call is made, no pump, fan or LED is
\* switched on and the ledger stays as it was.
C2_RollbackOnly ==
  \A t \in Tasks :
    (Decided(t) /\ HealthBelowRollback(t)) =>
      /\ DOMAIN cyc[t].rules_result.actions \subseteq {"rollback"}
      /\ cyc[t].combined_decisions = Combined(FALSE, TRUE, {}, <<>>, "", NoFan, NoLed)
      /\ cyc[t].filtered_decisions.filtered_actions = cyc[t].combined_decisions
      /\ cyc[t].executed \subseteq {"emergency_stop"}
      /\ pc[t] \in {"store", "cleanup"} => cyc[t].executed = {"emergency_stop"}
      /\ pc[t] # "dosing"
      /\ call[t] = IdleCall
      /\ AllStopped(t)
      /\ ~fan_task[t]
      /\ daily_doses[t] = EmptyLedger

\* C2 witness: a cycle with health 0.2 whose advisory output proposed a dose and
\* a fan speed has ended with emergency_stop as its only executed entry
C2_Witness ==
  /\ pc[1] = "cleanup"
  /\ cyc[1].success = "true"
  /\ cyc[1].current_kpis = Kpis(200)
  /\ cyc[1].llm_result.keys = {"dose", "fan"}
  /\ cyc[1].executed = {"emergency_stop"}

\* the safety check of the cycle of process t is about to use the ledger for a pump
ChecksLedger(t) ==
  /\ pc[t] = "dosing"
  /\ Handling(t)
  /\ CurCmd(t).name \in DosePumps

\* C6: the ledger value the safety check uses in a control cycle equals the
\* total ml the pump has dosed successfully in the control cycles since the
\* last local midnight.
C6_LedgerSurvivesCycles ==
  \A t \in Tasks :
    ChecksLedger(t) =>
      LedgerGet(daily_doses[t], CurCmd(t).name) = LedgerGet(dosed_today, CurCmd(t).name)

\* the control cycles in flight
InFlight == {t \in Tasks : pc[t] # "idle"}

\* C8: at most one control cycle is in flight at any time.
C8_AtMostOneCycleInFlight == Cardinality(InFlight) <= 1

\* the freeze condition holds on the trends of the cycle of process t
FreezeCondition(t) ==
  LET trends == cyc[t].trends IN
    /\ {"health_7day_avg", "ph_in_spec_7day", "ec_in_spec_7day"} \subseteq DOMAIN trends
    /\ Val(trends["health_7day_avg"]) >= 950
    /\ Val(trends["ph_in_spec_7day"]) >= 950
    /\ Val(trends["ec_in_spec_7day"]) >= 950

\* C9: when the rollback condition and the freeze condition hold in the same
\* cycle, evaluate_rules returns the rollback action and not the freeze finding.
C9_RollbackBeforeFreeze ==
  \A t \in Tasks :
    (Decided(t) /\ HealthBelowRollback(t) /\ FreezeCondition(t)) =>
      /\ "rollback" \in DOMAIN cyc[t].rules_result.actions
      /\ \A j \in 1..Len(cyc[t].rules_result.rule_evaluations) :
           cyc[t].rules_result.rule_evaluations[j].rule # "freeze_check"

Evaluated == engine_call.op = "evaluate_rules"

\* the trends have the entry and it is at or above the limit
TrendAtLeast(trends, key, limit) ==
  key \in DOMAIN trends /\ Val(trends[key]) >= limit

\* C11: the freeze gate reports frozen, with a freeze_until 14 days ahead,
\* exactly when the 7-day health average is at least 0.95 and the 7-day pH and
\* EC in-spec rates are at least 95 each; with one of them below its threshold
\* or absent from the trends, frozen is false and freeze_until is empty.
C11_FreezeGateExact ==
  Evaluated =>
    LET trends == engine_call.trends
        freeze_status == engine_call.result.freeze_status
    IN IF /\ TrendAtLeast(trends, "health_7day_avg", 950)
          /\ TrendAtLeast(trends, "ph_in_spec_7day", 950)
          /\ TrendAtLeast(trends, "ec_in_spec_7day", 950)
         THEN freeze_status.frozen /\ freeze_status.freeze_until = Some(14)
         ELSE ~freeze_status.frozen /\ freeze_status.freeze_until = None

\* C11 witness: with all three values exactly at their thresholds the gate
\* reported frozen
C11_Witness ==
  /\ Evaluated
  /\ engine_call.trends = TrendsOf(Some(950), Some(950), Some(950), 30 * MlScale)
  /\ engine_call.result.freeze_status.frozen

\* the finding of the freeze gate
FreezeFinding == Finding("freeze_check", TRUE, Action("none", <<>>, 0, 0, 0, 0), "")

\* C12: when the freeze gate fires and the rollback is not required,
\* evaluate_rules evaluates no adjustment rule: its actions are empty and its
\* only finding is the freeze finding.
C12_FreezeShortCircuits ==
  ( /\ Evaluated
    /\ engine_call.result.freeze_status.frozen
    /\ ~engine_call.result.rollback_required.required ) =>
      /\ engine_call.result.actions = EmptyDict
      /\ engine_call.result.rule_evaluations = <<FreezeFinding>>

\* C12 witness: the gate fired on readings that are hot, humid and bright with
\* a high EC and a reservoir change overdue, and nothing but the freeze
\* finding came back
C12_Witness ==
  /\ Evaluated
  /\ engine_call.result.freeze_status.frozen
  /\ engine_call.sensor_data =
       Readings(Some(680), Some(210), Some(255), Some(85), Some(800), Lux(Some(35000)))
  /\ engine_call.current_kpis = KpisDays(950, 14)
  /\ engine_call.result.actions = EmptyDict
  /\ Len(engine_call.result.rule_evaluations) = 1

\* the dose dict has an entry for the pump
HasPump(dose, pump) == \E j \in 1..Len(dose) : dose[j].name = pump

\* the ml of the pump's entry in the dose dict
DoseMl(dose, pump) == dose[CHOOSE j \in 1..Len(dose) : dose[j].name = pump].ml

\* the pump entries of a dose dict
PumpEntries(dose) == {dose[j] : j \in {a \in 1..Len(dose) : dose[a].name # "type"}}

\* the cycle of process t was decided without the freeze and without the rollback
DecidedOpen(t) ==
  /\ Decided(t)
  /\ ~cyc[t].rules_result.freeze_status.frozen
  /\ ~cyc[t].rules_result.rollback_required.required

\* the rule engine emitted a dosing action under the key in the cycle of process t
RuleDoses(t, key) ==
  /\ key \in DOMAIN cyc[t].rules_result.actions
  /\ cyc[t].rules_result.actions[key].tag = "dose"

\* C13: in a cycle that is neither frozen nor in rollback and in which the rule
\* engine emits a pH dose for ph_pump, the combined decisions carry a dose for
\* ph_pump with the rule engine's ml, and with a health score above 0.9 the
\* final actions contain exactly one dose, for ph_pump, with half that ml.
C13_RulePhDoseReachesFinal ==
  \A t \in Tasks :
    (DecidedOpen(t) /\ RuleDoses(t, "ph_adjustment")) =>
      LET ml == DoseMl(cyc[t].rules_result.actions["ph_adjustment"].dose, "ph_pump")
          combined == cyc[t].combined_decisions
          final == cyc[t].filtered_decisions.filtered_actions
      IN /\ "dose" \in combined.keys
         /\ HasPump(combined.dose, "ph_pump")
         /\ DoseMl(combined.dose, "ph_pump") = ml
         /\ Val(cyc[t].current_kpis["health_score"]) > 900 =>
              /\ "dose" \in final.keys
              /\ \E half \in 0..ml : 2 * half = ml /\ PumpEntries(final.dose) = {Cmd("ph_pump", half)}

\* the rule engine emitted a pH or an EC dosing action in the cycle of process t
RuleDosing(t) == RuleDoses(t, "ph_adjustment") \/ RuleDoses(t, "ec_adjustment")

\* the pump entries of the rule engine's dosing actions, the EC entry of a pump
\* replacing the pH entry
RuleDoseEntries(t) ==
  LET actions == cyc[t].rules_result.actions
      ph == IF RuleDoses(t, "ph_adjustment") THEN PumpEntries(actions["ph_adjustment"].dose) ELSE {}
      ec == IF RuleDoses(t, "ec_adjustment") THEN PumpEntries(actions["ec_adjustment"].dose) ELSE {}
  IN ec \cup {c \in ph : \A e \in ec : e.name # c.name}

\* C14: an advisory dose appears in the combined decisions only in a cycle
\* where the rule engine produced no dosing action; whenever the rule engine
\* produced a pH or EC dosing action, the dose in the combined decisions is the
\* rule engine's and never the advisory's.
C14_RuleDoseOverridesAdvisory ==
  \A t \in Tasks :
    (DecidedOpen(t) /\ ~cyc[t].combined_decisions.raised) =>
      LET combined == cyc[t].combined_decisions IN
        /\ ("dose" \in combined.keys /\ combined.dose_reason = "llm") => ~RuleDosing(t)
        /\ RuleDosing(t) =>
             /\ "dose" \in combined.keys
             /\ combined.dose_reason = "rules"
             /\ PumpEntries(combined.dose) = RuleDoseEntries(t)

\* the fan speeds the rules set in the cycle of process t, the heating rule's
\* minimal speed included
RuleFanSpeeds(t) ==
  LET actions == cyc[t].rules_result.actions
  IN {actions[key].fan_speed : key \in {q \in DOMAIN actions : actions[q].tag \in {"fan", "fan_minimal"}}}

\* the LED powers the rules set in the cycle of process t
RuleLedPowers(t) ==
  LET actions == cyc[t].rules_result.actions
  IN {actions[key].led_power : key \in {q \in DOMAIN actions : actions[q].tag = "led"}}

\* C15: an advisory fan (LED) suggestion is accepted into the combined
\* decisions only if the rule engine made no decision on the fan (LED) channel
\* in that cycle; when a rule set a fan speed or an LED power, the heating
\* rule's minimal fan speed included, the combined decisions carry the rule
\* engine's value for that channel and not the advisory's.
C15_RuleFanLedOverridesAdvisory ==
  \A t \in Tasks :
    (DecidedOpen(t) /\ ~cyc[t].combined_decisions.raised) =>
      LET combined == cyc[t].combined_decisions IN
        /\ RuleFanSpeeds(t) # {} =>
             "fan" \in combined.keys /\ combined.fan.fan_speed \in RuleFanSpeeds(t)
        /\ RuleLedPowers(t) # {} =>
             "led" \in combined.keys /\ combined.led.led_power \in RuleLedPowers(t)

\* evaluate_rules was called directly and went on to the rules
EvaluatedOpen ==
  /\ Evaluated
  /\ ~engine_call.result.freeze_status.frozen
  /\ ~engine_call.result.rollback_required.required

\* the findings of the result whose rule name is one of the given
FindingsOf(rules) ==
  LET evaluations == engine_call.result.rule_evaluations
  IN {j \in 1..Len(evaluations) : evaluations[j].rule \in rules}

\* the finding carries no action
WithoutAction(f) == ~f.has_action \/ f.action.tag = "None"

\* the value of a trend entry is below the limit (an absent entry is not)
TrendBelow(trends, key, limit) ==
  key \in DOMAIN trends /\ Val(trends[key]) < limit

\* the pH dose of the claim, in thousandths of a ml, for a deviation in
\* hundredths of a pH unit: (adjustment/0.1) x (reservoir_l/10) with
\* adjustment = min(|deviation| x 0.5, 0.1), times 0.7 below the target
ClaimPhDose(deviation) ==
  LET adjustment == Min(Abs(deviation) * 5, 100)
      ml == adjustment * reservoir_volume_l
  IN IF deviation < 0 THEN (ml * 7) \div 10 ELSE ml

\* ml, in tenths, is the dosage, in thousandths, to the nearest tenth
NearestTenth(ml, dosage) == Abs(100 * ml - dosage) <= 50

\* C16: the pH rule returns a ph_pump dose exactly when the 7-day pH in-spec
\* rate is below 90, |current_ph - ph_target| > 0.2 and the computed ml
\* satisfies 0 < ml <= 20, the ml being (adjustment/0.1) x (reservoir_l/10)
\* with adjustment = min(|deviation| x 0.5, 0.1), times 0.7 when the pH is
\* below target; in every other case with a pH reading present it returns a
\* finding without an action.
C16_PhRuleExact ==
  (EvaluatedOpen /\ ~IsNone(engine_call.sensor_data.water.ph)) =>
    LET deviation == Val(engine_call.sensor_data.water.ph) - 600
        dosage == ClaimPhDose(deviation)
        found == FindingsOf({"ph_adjustment", "ph_check"})
        f == engine_call.result.rule_evaluations[CHOOSE j \in found : TRUE]
    IN /\ Cardinality(found) = 1
       /\ IF /\ TrendBelow(engine_call.trends, "ph_in_spec_7day", 900)
             /\ Abs(deviation) > 20
             /\ 0 < dosage /\ dosage <= 20000
            THEN /\ f.rule = "ph_adjustment"
                 /\ f.has_action /\ f.action.tag = "dose"
                 /\ \E ml \in 0..(20 * MlScale) :
                      /\ PumpEntries(f.action.dose) = {Cmd("ph_pump", ml)}
                      /\ NearestTenth(ml, dosage)
            ELSE f.rule = "ph_check" /\ WithoutAction(f)

Filtered == engine_call.op = "apply_stable_unless_better_logic"

\* the factor the claim gives for a health score, in tenths
ClaimFactor(health_score) ==
  IF health_score > 900 THEN 5 ELSE IF health_score > 800 THEN 8 ELSE 10

EnvironmentalRules ==
  {"temperature_cooling", "temperature_heating", "humidity_control", "light_stress_prevention"}

\* C19: the environmental rules are not mutually exclusive: evaluate_rules
\* returns the action of every environmental rule that fired; when both the
\* cooling rule and the humidity rule fire, both of their fan actions are
\* present in the returned actions.
C19_EveryFiredEnvironmentalAction ==
  EvaluatedOpen =>
    \A j \in FindingsOf(EnvironmentalRules) :
      \E key \in DOMAIN engine_call.result.actions :
        engine_call.result.actions[key] = engine_call.result.rule_evaluations[j].action

\* every reading the rules use is present
AllInputsPresent(sensor_data) ==
  /\ ~IsNone(sensor_data.water.ph) /\ ~IsNone(sensor_data.water.ec)
  /\ ~IsNone(sensor_data.air.temperature) /\ ~IsNone(sensor_data.air.humidity)
  /\ "lux" \in DOMAIN sensor_data.light /\ ~IsNone(sensor_data.light["lux"])

\* C20: in a cycle where neither gate fires and all sensor inputs are present,
\* rule_evaluations contains one finding for the pH rule, one for the EC rule,
\* one for the reservoir rule and at least one for the environmental rules, a
\* rule that did not fire contributing a finding without an action.
C20_EveryRuleEmitsFinding ==
  (EvaluatedOpen /\ AllInputsPresent(engine_call.sensor_data)) =>
    /\ Cardinality(FindingsOf({"ph_adjustment", "ph_check"})) = 1
    /\ Cardinality(FindingsOf({"ec_increase", "ec_decrease", "ec_check"})) = 1
    /\ Cardinality(FindingsOf({"reservoir_change_cadence", "reservoir_check"})) = 1
    /\ Cardinality(FindingsOf(EnvironmentalRules \cup {"environmental_check"})) >= 1
    /\ \A j \in FindingsOf({"ph_check", "ec_check", "reservoir_check"}) :
         WithoutAction(engine_call.result.rule_evaluations[j])

\* C21: a missing or invalid sensor field silences only the rule that needs
\* it: the result has no 'error' key, and every rule whose own inputs are
\* present produces its finding as with complete data; a missing pH, EC or lux
\* value does not suppress the temperature and humidity actions.
C21_MissingFieldIsolated ==
  EvaluatedOpen =>
    LET sensor_data == engine_call.sensor_data
        temperature == sensor_data.air.temperature
        humidity == sensor_data.air.humidity
        evaluations == engine_call.result.rule_evaluations
    IN /\ "error" \notin DOMAIN engine_call.result
       /\ ~IsNone(sensor_data.water.ph) =>
            Cardinality(FindingsOf({"ph_adjustment", "ph_check"})) = 1
       /\ ~IsNone(sensor_data.water.ec) =>
            Cardinality(FindingsOf({"ec_increase", "ec_decrease", "ec_check"})) = 1
       /\ Cardinality(FindingsOf({"reservoir_change_cadence", "reservoir_check"})) = 1
       /\ (~IsNone(temperature) /\ Val(temperature) > 240) =>
            \E j \in FindingsOf({"temperature_cooling"}) :
              /\ evaluations[j].has_action
              /\ evaluations[j].action.fan_speed = Min(80, 2 * (Val(temperature) - 220))
              /\ evaluations[j].action.duration_minutes = 30
       /\ (~IsNone(temperature) /\ Val(temperature) < 200) =>
            \E j \in FindingsOf({"temperature_heating"}) :
              evaluations[j].has_action /\ evaluations[j].action.fan_speed = 10
       /\ (~IsNone(humidity) /\ Val(humidity) > 80) =>
            \E j \in FindingsOf({"humidity_control"}) :
              /\ evaluations[j].has_action
              /\ evaluations[j].action.fan_speed = 60
              /\ evaluations[j].action.duration_minutes = 20

\* evaluate_rules was called a second time with the inputs of the first call
EvaluatedTwice == engine_call.op = "evaluate_rules_again"

Returns(t) == pc[t] \in {"ready", "store"} /\ pc'[t] = "cleanup"

TrendFields == {"ph_in_spec_7day", "ec_in_spec_7day", "health_7day_avg", "ml_total_7day"}

\* C24: with fewer than 2 KPI rollups in the 7-day history
\* calculate_7day_trends returns an error result without trend fields, and
\* evaluate_rules treats such trends as neutral: the freeze gate does not fire
\* and neither the pH rule nor the EC rules produce a dose or a config change.
C24_ShortHistoryIsNeutral ==
  /\ (engine_call.op = "calculate_7day_trends" /\ Len(engine_call.kpi_history) < 2) =>
       /\ "error" \in DOMAIN engine_call.result
       /\ DOMAIN engine_call.result \cap TrendFields = {}
  /\ (Evaluated /\ "error" \in DOMAIN engine_call.trends
                /\ DOMAIN engine_call.trends \cap TrendFields = {}) =>
       /\ ~engine_call.result.freeze_status.frozen
       /\ \A j \in 1..Len(engine_call.result.rule_evaluations) :
            engine_call.result.rule_evaluations[j].rule
              \notin {"freeze_check", "ph_adjustment", "ec_increase", "ec_decrease"}
       /\ \A key \in DOMAIN engine_call.result.actions :
            engine_call.result.actions[key].tag \notin {"dose", "config_change"}

\* one rollup was in the history and the trends came back as the error result
C24_WitnessHistory ==
  /\ engine_call.op = "calculate_7day_trends"
  /\ Len(engine_call.kpi_history) = 1
  /\ engine_call.result = ErrorDict

\* C24 witness: with the error result as trends, a pH of 5.0, an EC of 1.3
\* and a health score below 0.8 were evaluated and led to the pH and EC
\* findings without a dose
C24_Witness ==
  /\ EvaluatedOpen
  /\ engine_call.trends = ErrorDict
  /\ engine_call.sensor_data.water = [ph |-> Some(500), ec |-> Some(130)]
  /\ Val(engine_call.current_kpis["health_score"]) < 800
  /\ FindingsOf({"ph_check"}) # {}
  /\ FindingsOf({"ec_check"}) # {}

\* C25: when the configuration was changed within the last 48 hours and the
\* current health score, pH in-spec rate and EC in-spec rate are all lower than
\* the ones recorded before the change, evaluate_rules reports
\* rollback_required.required = true, also at a health score of 0.6 or more
KpisWorsened(call_) ==
  \A q \in {"health_score", "ph_in_spec", "ec_in_spec"} :
    Val(call_.current_kpis[q]) < Val(call_.previous_kpis[q])

C25_RollbackAfterConfigChange ==
  ( /\ engine_call # NoCall
    /\ engine_call.op = "evaluate_rules_after_change"
    /\ engine_call.hours_since_change <= 48
    /\ KpisWorsened(engine_call) )
  => engine_call.result.rollback_required.required

\* C28: when a cycle has dosed pump_a, pump_b or ph_pump with ml, the row
\* stored for the cycle carries ml for that pump, so the dosing totals computed
\* from the action history grow by exactly ml; a pump that was not dosed
\* with success adds nothing
TotalOf(totals, pump) ==
  CASE pump = "pump_a" -> totals.pump_a_ml
    [] pump = "pump_b" -> totals.pump_b_ml
    [] OTHER -> totals.ph_pump_ml

DosedInCycle(t, pump) ==
  IF pump \in cyc[t].dose_result.executed
    THEN DoseMl(cyc[t].filtered_decisions.filtered_actions.dose, pump)
    ELSE 0

C28_DoseCountsInTotals ==
  [][ (pc[1] = "store" /\ pc'[1] = "cleanup") =>
        \A pump \in {"pump_a", "pump_b", "ph_pump"} :
          TotalOf(CalculateDosingTotals(db'.actuator_actions), pump)
            = TotalOf(CalculateDosingTotals(db.actuator_actions), pump)
              + DosedInCycle(1, pump) ]_vars

\* C30: in a cycle where the freeze gate fires and the rollback is not
\* required, no pump is run: dose_nutrients is not entered, whether the dose
\* would come from the rule engine or from the LLM's suggestion
FrozenCycle(t) ==
  /\ Decided(t)
  /\ cyc[t].rules_result.freeze_status.frozen
  /\ ~cyc[t].rules_result.rollback_required.required

C30_FrozenCycleRunsNoPump ==
  \A t \in Tasks :
    FrozenCycle(t) =>
      /\ pc[t] # "dosing"
      /\ "dosing" \notin cyc[t].executed
      /\ cyc[t].dose_result.executed = {}

\* C26: after emergency_stop has returned, every pump is off, the fan speed is
\* 0 and the LED power is 0, whatever preceded the stop or was in flight, until
\* a dose, fan or LED command issued after the stop changes them
C26_StopHolds == timeline.stopped => AllStopped(1)

\* C27: every non-refill pump's ledger value of a controller lies between 0
\* and 200 ml, also when dose_nutrients calls overlap
C27_LedgerWithinDailyLimit ==
  \A k \in Tasks : \A pump \in (DOMAIN daily_doses[k]) \ {"refill"} :
    /\ daily_doses[k][pump] >= 0
    /\ daily_doses[k][pump] <= SAFETY_LIMITS.daily_dose_limit

\* C29: while the duration of the latest fan command has not elapsed, the fan
\* runs at the speed of that command: the shutoff of an earlier command does
\* not switch it off
C29_FanHeldForDuration ==
  timeline.now < timeline.fan_until => states[1].fan_speed = timeline.fan_speed

====
